---- MODULE Spec2Model ----
(***************************************************************************)
(* Verification model of the workout scoring, trend and training-load      *)
(* engine of coros-fit-analysis (fastapi_dashboard/backend).               *)
(*                                                                         *)
(* Numbers.  Python floats are modelled by integers in a fixed unit:       *)
(*   percentages (speed_cv, stop_percentage, stroke_rate_cv) in whole %,   *)
(*   distances in metres, stroke-rate drop in strokes/min,                 *)
(*   speeds in cm/s (so the thresholds 0.8 and 0.6 m/s are 80 and 60),     *)
(*   training stress in 1/100 TSS point (the code rounds TSS to 2 digits). *)
(* A dict is a function whose DOMAIN is the set of keys present;           *)
(* dict.get(k, d) is Get(m, k, d).  float('nan') is the value NaN, for     *)
(* which every ordering comparison is false, as in IEEE-754.               *)
(***************************************************************************)
EXTENDS Integers, Sequences, FiniteSets, TLC

VARIABLES
    \* ---- single-workout scorer (analysis_engine.py)
    metrics,        \* the metrics bundle (dict) handed to the scorer
    workout_type,   \* the workout type argument / classifier output
    sub_scores,     \* sub-score mapping
    total_score,    \* sum of the sub-scores
    grade,          \* letter grade
    pros,           \* list returned by generate_pros_cons
    cons,           \* list returned by generate_pros_cons
    \* ---- multi-workout comparison (comparison_engine.py)
    workout_dataframes,  \* the list of workout tables handed to the engine
    result,              \* what analyze_multiple_workouts returned (or raised)
    \* ---- training load (pmc_calculator.py)
    activities,     \* rows of the activities table
    days,           \* argument of calculate_pmc
    sport_filter,   \* argument of calculate_pmc ("" is None)
    daily_tss,      \* dict date -> summed TSS
    all_dates,      \* list of the dates of the window
    date_idx,       \* position of the loop over all_dates
    ctl,            \* chronic training load (42-day EMA)
    atl,            \* acute training load (7-day EMA)
    pmc_data,       \* list of PMCPoints built so far
    \* ---- metric extraction (analysis_engine.py, analyze_long_runs.py)
    df,                 \* the workout table
    swim_metrics,       \* dict returned by calculate_swim_metrics
    hr_stability,       \* dict returned by calculate_hr_stability
    cadence_stability,  \* dict returned by calculate_cadence_stability
    pace_stability,     \* dict returned by calculate_pace_stability
    analysis_metrics,   \* the 'metrics' entry of analyze_workout's result
    \* ---- verdict and prescription (analysis_engine.py)
    verdict,        \* string returned by generate_verdict
    prescription,   \* dict returned by prescribe_next_workout
    \* ---- retry_with_backoff (strava_retry.py)
    max_retries,    \* argument of retry_with_backoff
    attempt,        \* loop variable of retry_with_backoff
    backoff,        \* seconds the next sleep will last
    last_exception, \* the exception kept for the end of the loop
    invocations,    \* what func() yielded, one entry per invocation
    sleeps,         \* the durations of the asyncio.sleep calls made
    retry_result,   \* what retry_with_backoff returned or raised
    \* ---- rate limiter and syncs (strava_rate_limiter.py, strava_sync.py)
    now,                \* time.time(), in seconds
    rate_limit_15min,   \* _rate_limit_15min
    rate_limit_day,     \* _rate_limit_day
    syncs,              \* the sync_activities coroutines
    \* ---- background job (strava_background_sync.py)
    running,            \* BackgroundSyncJob.running
    task,               \* BackgroundSyncJob.task: an index into tasks, 0 for None
    tasks,              \* the run_loop tasks created so far
    rounds_started,     \* calls of sync_all_users so far
    last_round,         \* how the last call of sync_all_users went
    last_call,          \* the last call of start() or stop()
    \* ---- users table (strava_store.py, models.py)
    users,              \* rows of the users table
    next_user_id,       \* next value of the sequence of users.id
    calls,              \* the calls of get_or_create_user
    \* ---- position of the call being modelled
    pc

scorerVars == <<metrics, workout_type, sub_scores, total_score, grade, pros, cons>>
trendVars == <<workout_dataframes, result>>

pmcVars == <<activities, days, sport_filter, daily_tss, all_dates, date_idx, ctl, atl, pmc_data>>

metricVars == <<df, swim_metrics, hr_stability, cadence_stability, pace_stability,
               analysis_metrics>>

adviceVars == <<verdict, prescription>>

retryVars == <<max_retries, attempt, backoff, last_exception, invocations, sleeps,
              retry_result>>

limiterVars == <<now, rate_limit_15min, rate_limit_day>>

syncVars == <<syncs>>

jobVars == <<running, task, tasks, rounds_started, last_round, last_call>>

storeVars == <<users, next_user_id, calls>>

serviceVars == <<limiterVars, syncVars, jobVars, storeVars>>

netVars == <<retryVars, serviceVars>>

vars == <<scorerVars, trendVars, pmcVars, metricVars, adviceVars, netVars, pc>>

-----------------------------------------------------------------------------
(* Values and dict helpers *)

\* float('nan'): e.g. pandas std() of a single sample
NaN == -99999

\* marker used only while enumerating inputs: "this key is not in the dict"
Absent == -88888

Lt(a, b) == a # NaN /\ b # NaN /\ a < b
Gt(a, b) == a # NaN /\ b # NaN /\ a > b
Ge(a, b) == a # NaN /\ b # NaN /\ a >= b

\* dict.get(key, default)
Get(m, k, d) == IF k \in DOMAIN m THEN m[k] ELSE d

\* abs() of a float
Abs(x) == IF x = NaN THEN NaN ELSE IF x < 0 THEN -x ELSE x

Min(a, b) == IF a <= b THEN a ELSE b
Max(a, b) == IF a >= b THEN a ELSE b

\* the dict holding exactly the keys of record r whose value is not Absent
Bundle(r) == [k \in {k \in DOMAIN r : r[k] # Absent} |-> r[k]]

WorkoutTypes == {"Endurance", "Threshold", "Speed", "Recovery", "Technique"}

\* sub-score keys in their declaration (dict insertion) order
SubKeys == <<"distance_endurance", "pace_consistency", "stroke_stability", "speed_gears">>
SubKeySet == {SubKeys[i] : i \in 1..Len(SubKeys)}

-----------------------------------------------------------------------------
(* score_swim_workout *)

DistanceScore_NoClamp(m) ==
    LET distance_m == Get(m, "distance_m", 0)
        base == IF Gt(distance_m, 0)
                THEN IF Ge(distance_m, 2000) THEN 25
                     ELSE IF Ge(distance_m, 1500) THEN 20
                     ELSE IF Ge(distance_m, 1000) THEN 15
                     ELSE IF Ge(distance_m, 500) THEN 10
                     ELSE 5
                ELSE 0
        stop_pct == Get(m, "stop_percentage", 100)
    IN  IF Lt(stop_pct, 5) THEN base + 3
        ELSE IF Lt(stop_pct, 10) THEN base + 1
        ELSE base

\* A) Distance Endurance (0-25)
DistanceScore(m) ==
    LET distance_m == Get(m, "distance_m", 0)
        base == IF Gt(distance_m, 0)
                THEN IF Ge(distance_m, 2000) THEN 25
                     ELSE IF Ge(distance_m, 1500) THEN 20
                     ELSE IF Ge(distance_m, 1000) THEN 15
                     ELSE IF Ge(distance_m, 500) THEN 10
                     ELSE 5
                ELSE 0
        stop_pct == Get(m, "stop_percentage", 100)
        bonus == IF Lt(stop_pct, 5) THEN base + 3
                 ELSE IF Lt(stop_pct, 10) THEN base + 1
                 ELSE base
    IN  Min(25, bonus)

\* B) Pace Consistency (0-25)
PaceScore(m) ==
    LET speed_cv == Get(m, "speed_cv", 100)
        stop_pct == Get(m, "stop_percentage", 100)
        base == IF Lt(speed_cv, 3) THEN 25
                ELSE IF Lt(speed_cv, 6) THEN 20
                ELSE IF Lt(speed_cv, 10) THEN 15
                ELSE IF Lt(speed_cv, 15) THEN 10
                ELSE 5
    IN  IF Gt(stop_pct, 20) THEN Max(0, base - 5) ELSE base

StrokeScore_NoDropBonus(m) ==
    LET stroke_cv == Get(m, "stroke_rate_cv", 100)
    IN  IF Lt(stroke_cv, 5) THEN 15
        ELSE IF Lt(stroke_cv, 10) THEN 12
        ELSE IF Lt(stroke_cv, 15) THEN 8
        ELSE 5

\* C) Stroke Rate & Stability (0-25)
StrokeScore(m) ==
    LET stroke_cv == Get(m, "stroke_rate_cv", 100)
        stroke_drop == Abs(Get(m, "stroke_rate_drop", 0))
        base == IF Lt(stroke_cv, 5) THEN 15
                ELSE IF Lt(stroke_cv, 10) THEN 12
                ELSE IF Lt(stroke_cv, 15) THEN 8
                ELSE 5
        adj == IF Lt(stroke_drop, 2) THEN base + 10
               ELSE IF Lt(stroke_drop, 4) THEN base + 5
               ELSE IF Gt(stroke_drop, 5) THEN Max(0, base - 5)
               ELSE base
    IN  Min(25, adj)

\* D) Speed Gear Presence (0-25); has_speed_gears is a Python bool (1 / 0)
SpeedGearScore(m, wt) ==
    LET gear_count == Get(m, "speed_gear_count", 0)
    IN  IF Ge(gear_count, 5) THEN 25
        ELSE IF Ge(gear_count, 3) THEN 20
        ELSE IF Ge(gear_count, 1) THEN 15
        ELSE IF Get(m, "has_speed_gears", 0) # 0 THEN 10
        ELSE IF wt = "Endurance" THEN 15
        ELSE 5

SubScoresOf(m, wt) ==
    [k \in SubKeySet |->
        CASE k = "distance_endurance" -> DistanceScore(m)
          [] k = "pace_consistency"   -> PaceScore(m)
          [] k = "stroke_stability"   -> StrokeScore(m)
          [] k = "speed_gears"        -> SpeedGearScore(m, wt)]

\* sum(sub_scores.values())
SumSubScores(s) ==
    s["distance_endurance"] + s["pace_consistency"] + s["stroke_stability"] + s["speed_gears"]

GradeOf_ShiftedCut(total) ==
    IF total > 85 THEN "A"
    ELSE IF total >= 70 THEN "B"
    ELSE IF total >= 55 THEN "C"
    ELSE "D"

GradeOf(total) ==
    IF total >= 85 THEN "A"
    ELSE IF total >= 70 THEN "B"
    ELSE IF total >= 55 THEN "C"
    ELSE "D"

\* score_swim_workout(metrics, workout_type) -> (grade, sub_scores, total_score)
score_swim_workout(m, wt) ==
    LET s == SubScoresOf(m, wt)
        t == SumSubScores(s)
    IN  [grade |-> GradeOf(t), sub_scores |-> s, total_score |-> t]

-----------------------------------------------------------------------------
(* detect_workout_type.  metrics["speed"] holds the LENGTH of the cleaned   *)
(* speed array (the only property of the array the classifier reads);       *)
(* speed_avg is in cm/s.                                                     *)

detect_workout_type_RecoveryBeforeEndurance(m) ==
    IF "speed" \notin DOMAIN m \/ Get(m, "speed", 0) < 50 THEN "Recovery"
    ELSE LET speed_cv == Get(m, "speed_cv", 0)
             avg_speed == Get(m, "speed_avg", 0)
         IN  IF Gt(speed_cv, 15) /\ Gt(Get(m, "speed_gear_count", 0), 3) THEN "Speed"
             ELSE IF Gt(avg_speed, 80) /\ Lt(speed_cv, 10)
                     /\ Lt(Get(m, "stop_percentage", 100), 10) THEN "Threshold"
             ELSE IF Gt(Get(m, "stop_percentage", 0), 20) THEN "Technique"
             ELSE IF Lt(avg_speed, 60) THEN "Recovery"
             ELSE IF Lt(speed_cv, 8) /\ Lt(Get(m, "stop_percentage", 100), 15)
                  THEN "Endurance"
             ELSE "Endurance"

detect_workout_type(m) ==
    IF "speed" \notin DOMAIN m \/ Get(m, "speed", 0) < 50 THEN "Recovery"
    ELSE LET speed_cv == Get(m, "speed_cv", 0)
             avg_speed == Get(m, "speed_avg", 0)
         IN  IF Gt(speed_cv, 15) /\ Gt(Get(m, "speed_gear_count", 0), 3) THEN "Speed"
             ELSE IF Gt(avg_speed, 80) /\ Lt(speed_cv, 10)
                     /\ Lt(Get(m, "stop_percentage", 100), 10) THEN "Threshold"
             ELSE IF Gt(Get(m, "stop_percentage", 0), 20) THEN "Technique"
             ELSE IF Lt(speed_cv, 8) /\ Lt(Get(m, "stop_percentage", 100), 15)
                  THEN "Endurance"
             ELSE IF Lt(avg_speed, 60) THEN "Recovery"
             ELSE "Endurance"

-----------------------------------------------------------------------------
(* generate_pros_cons *)

\* list.append(x) under an if
AppendIf(seq, cond, x) == IF cond THEN Append(seq, x) ELSE seq

\* while len(seq) < 3: seq.append(x)
PadTo3(seq, x) == IF Len(seq) < 3 THEN seq \o [i \in 1..(3 - Len(seq)) |-> x] ELSE seq

\* the slice seq[:3]
Take3(seq) == SubSeq(seq, 1, Min(3, Len(seq)))

\* the pros list before the filler loop and the slice
ProsRules(m, s) ==
    LET p1 == AppendIf(<<>>, s["pace_consistency"] >= 20, "Excellent pacing control")
        p2 == AppendIf(p1, s["distance_endurance"] >= 20, "Solid endurance base")
        p3 == AppendIf(p2, s["stroke_stability"] >= 20, "Stroke rhythm held up under fatigue")
        p4 == AppendIf(p3, Lt(Get(m, "stop_percentage", 100), 5), "Minimal interruptions")
        p5 == AppendIf(p4, s["speed_gears"] >= 20, "Good speed variation")
    IN  IF Len(p5) < 3
        THEN AppendIf(AppendIf(p5, Gt(Get(m, "distance_m", 0), 1500), "Strong distance covered"),
                      Lt(Get(m, "stroke_rate_cv", 100), 10), "Stable stroke rate")
        ELSE p5

\* the cons list before the filler loop and the slice
ConsRules(m, s, wt) ==
    LET c1 == AppendIf(<<>>, s["speed_gears"] < 15 /\ wt # "Recovery", "One-gear swim")
        c2 == AppendIf(c1, Gt(Get(m, "stop_percentage", 0), 15), "Too many interruptions")
        c3 == AppendIf(c2, s["pace_consistency"] < 15, "Pacing too variable")
        c4 == AppendIf(c3, Gt(Get(m, "stroke_rate_drop", 0), 4), "Technique breaks late")
        c5 == AppendIf(c4, s["distance_endurance"] < 15, "Distance too short")
    IN  IF Len(c5) < 3
        THEN AppendIf(AppendIf(c5, Gt(Get(m, "speed_cv", 0), 12), "Speed variability too high"),
                      Gt(Get(m, "stroke_rate_cv", 100), 15), "Stroke rate inconsistent")
        ELSE c5

generate_pros_cons_NoSlice(m, s, wt) ==
    [pros |-> PadTo3(ProsRules(m, s), "Good effort"),
     cons |-> PadTo3(ConsRules(m, s, wt), "Room for improvement")]

\* generate_pros_cons(metrics, sub_scores, workout_type) -> (pros[:3], cons[:3])
generate_pros_cons(m, s, wt) ==
    [pros |-> Take3(PadTo3(ProsRules(m, s), "Good effort")),
     cons |-> Take3(PadTo3(ConsRules(m, s, wt), "Room for improvement"))]

-----------------------------------------------------------------------------
(* analyze_workout.  A workout table (DataFrame) is reduced to what the      *)
(* engine reads from it:                                                     *)
(*   ok        FALSE: a signal column holds non-numeric data, so that        *)
(*             analyze_workout raises                                        *)
(*   date      session_start_time of row 0, [kind, v]:                       *)
(*               "missing"  no such column, or a table without rows          *)
(*               "str"      a date string; v is its rank in string order     *)
(*               "nan_obj"  NaN in a column of strings (a Python float)      *)
(*               "nan_f64"  NaN in an all-NaN float64 column (numpy float)   *)
(*   distance  session_total_distance of row 0 in m, or Absent               *)
(*   speed     session_avg_speed of row 0 in cm/s, or Absent                 *)
(*   bundle    the dict calculate_swim_metrics computes from the samples     *)

\* convert_to_native_types on a session date: a numpy float becomes a Python
\* float (still nan); any other not-a-number value becomes None
ConvertDate_KeepNaN(d) ==
    IF d.kind \in {"nan_f64", "nan_obj"} THEN [kind |-> "float_nan", v |-> 0] ELSE d

ConvertDate(d) ==
    IF d.kind = "nan_f64" THEN [kind |-> "float_nan", v |-> 0]
    ELSE IF d.kind = "nan_obj" THEN [kind |-> "None", v |-> 0]
    ELSE d

\* load_swim_data: the metadata dict
load_swim_data(t) ==
    LET date == IF t.date.kind = "missing" THEN <<>> ELSE [k \in {"date"} |-> t.date]
        dist == IF t.distance = Absent THEN <<>> ELSE [k \in {"distance_m"} |-> t.distance]
        spd  == IF t.speed = Absent THEN <<>> ELSE [k \in {"avg_speed_ms"} |-> t.speed]
    IN  date @@ dist @@ spd

\* analyze_workout(df), for a table it does not raise on; i is workout_number
analyze_workout(t, i) ==
    LET metadata == load_swim_data(t)
        wt == detect_workout_type(t.bundle)
        m  == [k \in {"distance_m"} |-> Get(metadata, "distance_m", 0)] @@ t.bundle
        sc == score_swim_workout(m, wt)
        pcs == generate_pros_cons(m, sc.sub_scores, wt)
    IN  [metadata |-> IF "date" \in DOMAIN metadata
                      THEN [k \in {"date"} |-> ConvertDate(metadata["date"])]
                           @@ metadata
                      ELSE metadata,
         distance_m |-> m["distance_m"],
         avg_speed_ms |-> Get(metadata, "avg_speed_ms", 0),
         workout_type |-> wt,
         grade |-> sc.grade,
         sub_scores |-> sc.sub_scores,
         total_score |-> sc.total_score,
         pros |-> pcs.pros,
         cons |-> pcs.cons,
         workout_number |-> i]

-----------------------------------------------------------------------------
(* comparison_engine.py *)

RECURSIVE AnalyzeAll(_, _)
\* the loop "for i, df in enumerate(workout_dataframes)": tables analyze_workout
\* raises on are skipped by the except clause
AnalyzeAll(dfs, i) ==
    IF i > Len(dfs) THEN <<>>
    ELSE IF dfs[i].ok THEN <<analyze_workout(dfs[i], i)>> \o AnalyzeAll(dfs, i + 1)
    ELSE AnalyzeAll(dfs, i + 1)

\* the sort key x.get('metadata', {}).get('date', '')
SortKey(w) == Get(w.metadata, "date", [kind |-> "str", v |-> 0])

\* list.sort raises TypeError as soon as it compares two keys Python cannot
\* order: None with anything, a str with a float.  A sort of two or more
\* elements compares every element with some other, and cannot finish
\* without comparing elements of two classes it has to interleave.
SortRaises(ws) ==
    /\ Len(ws) >= 2
    /\ \/ \E i \in 1..Len(ws) : SortKey(ws[i]).kind = "None"
       \/ \E i, j \in 1..Len(ws) :
              SortKey(ws[i]).kind = "str" /\ SortKey(ws[j]).kind = "float_nan"

RECURSIVE InsertByDate(_, _)
\* stable insertion: x goes after every element whose key is not greater
InsertByDate(x, ws) ==
    IF ws = <<>> THEN <<x>>
    ELSE IF SortKey(x).kind = "str" /\ SortKey(ws[Len(ws)]).kind = "str"
            /\ SortKey(x).v < SortKey(ws[Len(ws)]).v
         THEN InsertByDate(x, SubSeq(ws, 1, Len(ws) - 1)) \o <<ws[Len(ws)]>>
         ELSE ws \o <<x>>

SortByDate_KeepOrder(ws) == ws

RECURSIVE SortByDate(_)
\* workouts.sort(key=date, reverse=False) when no comparison raises: ascending
\* and stable; keys that are all nan compare False and stay as they are
SortByDate(ws) ==
    IF ws = <<>> THEN <<>>
    ELSE InsertByDate(ws[Len(ws)], SortByDate(SubSeq(ws, 1, Len(ws) - 1)))

RECURSIVE SumSeq(_)
\* sum(xs), by halves (the sum of integers does not depend on the grouping)
SumSeq(xs) ==
    IF xs = <<>> THEN 0
    ELSE IF Len(xs) = 1 THEN xs[1]
    ELSE LET h == Len(xs) \div 2
         IN  SumSeq(SubSeq(xs, 1, h)) + SumSeq(SubSeq(xs, h + 1, Len(xs)))

\* sum(x * x for x in xs)
SumSquares(xs) == SumSeq([i \in 1..Len(xs) |-> xs[i] * xs[i]])

\* extract_time_series: one list per tracked quantity
Distances(ws) == [i \in 1..Len(ws) |-> ws[i].distance_m]
Speeds(ws)    == [i \in 1..Len(ws) |-> ws[i].avg_speed_ms]
Scores(ws)    == [i \in 1..Len(ws) |-> ws[i].total_score]
SubSeries(ws, k) == [i \in 1..Len(ws) |-> ws[i].sub_scores[k]]

\* extract_time_series(workouts); the lists times and stroke_rates (session
\* fields no other function reads) are left out
extract_time_series(ws) ==
    [dates |-> [i \in 1..Len(ws) |-> SortKey(ws[i])],
     distances |-> Distances(ws),
     speeds |-> Speeds(ws),
     scores |-> Scores(ws),
     grades |-> [i \in 1..Len(ws) |-> ws[i].grade],
     sub_scores |-> [k \in SubKeySet |-> SubSeries(ws, k)]]

TrendRecord_ExtraToFirstHalf(xs) ==
    LET n  == Len(xs)
        h  == (n + 1) \div 2
        k  == n - h
        s1 == SumSeq(SubSeq(xs, 1, h))
        s2 == SumSeq(SubSeq(xs, h + 1, n))
        diff == s2 * h - s1 * k
        higher == diff > 0
        stable == IF s1 = 0 THEN FALSE
                  ELSE IF s1 < 0 THEN TRUE
                  ELSE 20 * Abs(diff) < k * s1
    IN  [direction  |-> IF higher THEN "improving" ELSE "declining",
         change_pct |-> IF s1 > 0 THEN [num |-> 100 * diff, den |-> k * s1]
                        ELSE [num |-> 0, den |-> 1],
         avg        |-> [num |-> s1 + s2, den |-> n],
         trend      |-> IF stable THEN "stable" ELSE IF higher THEN "up" ELSE "down"]

\* One trend record of calculate_trends for a list xs of length >= 2.
\* first_half = mean(xs[:n//2]) = s1/h, second_half = mean(xs[n//2:]) = s2/k;
\* second_half - first_half = diff/(h*k).  A division by a zero first_half is
\* a numpy division: it yields inf or nan, which is not < 0.05.
\* change_pct and avg are kept as exact fractions num/den.
TrendRecord(xs) ==
    LET n  == Len(xs)
        h  == n \div 2
        k  == n - h
        s1 == SumSeq(SubSeq(xs, 1, h))
        s2 == SumSeq(SubSeq(xs, h + 1, n))
        diff == s2 * h - s1 * k
        higher == diff > 0
        stable == IF s1 = 0 THEN FALSE
                  ELSE IF s1 < 0 THEN TRUE
                  ELSE 20 * Abs(diff) < k * s1
    IN  [direction  |-> IF higher THEN "improving" ELSE "declining",
         change_pct |-> IF s1 > 0 THEN [num |-> 100 * diff, den |-> k * s1]
                        ELSE [num |-> 0, den |-> 1],
         avg        |-> [num |-> s1 + s2, den |-> n],
         trend      |-> IF stable THEN "stable" ELSE IF higher THEN "up" ELSE "down"]

SubTrendKey(k) ==
    CASE k = "distance_endurance" -> "sub_score_distance_endurance"
      [] k = "pace_consistency"   -> "sub_score_pace_consistency"
      [] k = "stroke_stability"   -> "sub_score_stroke_stability"
      [] k = "speed_gears"        -> "sub_score_speed_gears"

\* the trend records of calculate_trends, one per tracked quantity
TrendRecords(ws) ==
    [key \in {"distance", "speed", "score"} |->
        TrendRecord(CASE key = "distance" -> Distances(ws)
                      [] key = "speed"    -> Speeds(ws)
                      [] key = "score"    -> Scores(ws))]
    @@ [key \in {SubTrendKey(k) : k \in SubKeySet} |->
        TrendRecord(SubSeries(ws, CHOOSE k \in SubKeySet : SubTrendKey(k) = key))]

calculate_trends_GuardOffByOne(ws) ==
    IF Len(ws) < 1 THEN <<>> ELSE TrendRecords(ws)

\* calculate_trends(workouts): {} for fewer than 2 workouts
calculate_trends(ws) ==
    IF Len(ws) < 2 THEN <<>> ELSE TrendRecords(ws)

\* the first sub-score key, in declaration order, whose trend is tr ("" if none)
FirstSubWithTrend(trends, tr) ==
    LET hits == {i \in 1..Len(SubKeys) : trends[SubTrendKey(SubKeys[i])].trend = tr}
    IN  IF hits = {} THEN ""
        ELSE SubKeys[CHOOSE i \in hits : \A j \in hits : i <= j]

\* generate_coach_insights(workouts, trends): the insight records, by title
\* (and area, for the two sub-score insights)
generate_coach_insights(ws, trends) ==
    IF Len(ws) < 2 THEN <<>>
    ELSE
    LET i1 == IF "score" \in DOMAIN trends
              THEN IF trends["score"].trend = "up"
                   THEN <<[title |-> "Performance Improving", area |-> ""]>>
                   ELSE IF trends["score"].trend = "down"
                   THEN <<[title |-> "Performance Declining", area |-> ""]>>
                   ELSE <<>>
              ELSE <<>>
        i2 == IF "distance" \in DOMAIN trends
                 /\ trends["distance"].trend = "up"
                 /\ trends["distance"].change_pct.num > 10 * trends["distance"].change_pct.den
              THEN <<[title |-> "Volume Building", area |-> ""]>>
              ELSE <<>>
        i3 == IF "speed" \in DOMAIN trends
              THEN IF trends["speed"].trend = "stable"
                   THEN <<[title |-> "Speed Consistency", area |-> ""]>>
                   ELSE IF trends["speed"].trend = "up"
                   THEN <<[title |-> "Speed Improving", area |-> ""]>>
                   ELSE <<>>
              ELSE <<>>
        hasSub == \E k \in SubKeySet : SubTrendKey(k) \in DOMAIN trends
        best == IF hasSub THEN FirstSubWithTrend(trends, "up") ELSE ""
        weak == IF hasSub THEN FirstSubWithTrend(trends, "down") ELSE ""
        i4 == IF best # "" THEN <<[title |-> "Strongest Area", area |-> best]>> ELSE <<>>
        i5 == IF weak # "" THEN <<[title |-> "Area Needing Attention", area |-> weak]>> ELSE <<>>
        scores == Scores(ws)
        n == Len(scores)
        S == SumSeq(scores)
        V == n * SumSquares(scores) - S * S
        \* score_cv = std/mean*100 = 100*sqrt(V)/S for S > 0, else 0
        i6 == IF n >= 3
              THEN IF S <= 0 \/ 100 * V < S * S
                   THEN <<[title |-> "Excellent Consistency", area |-> ""]>>
                   ELSE IF 25 * V > S * S
                   THEN <<[title |-> "High Variability", area |-> ""]>>
                   ELSE <<>>
              ELSE <<>>
    IN  i1 \o i2 \o i3 \o i4 \o i5 \o i6

\* key.replace('_', ' ').title()
AreaName(k) ==
    CASE k = "distance_endurance" -> "Distance Endurance"
      [] k = "pace_consistency"   -> "Pace Consistency"
      [] k = "stroke_stability"   -> "Stroke Stability"
      [] k = "speed_gears"        -> "Speed Gears"

\* identify_strengths_weaknesses(workouts, trends).  A category's mean is
\* sum/n and the mean of the four means is total/(4n), so that
\* value >= overall_avg + 3 is 4*sum >= total + 12n and value <= overall_avg - 3
\* is 4*sum <= total - 12n.  The means are kept as exact fractions num/den; the
\* float64 means of numpy are the same numbers when n divides the sums or n is
\* a power of two, and can differ from them in the last bit otherwise.  Of a
\* record the reasoning text is kept as the key of its template.
identify_strengths_weaknesses(ws, trends) ==
    IF Len(ws) < 2 THEN [strengths |-> <<>>, weaknesses |-> <<>>]
    ELSE LET n == Len(ws)
             sum(k) == SumSeq(SubSeries(ws, k))
             total == sum("distance_endurance") + sum("pace_consistency")
                      + sum("stroke_stability") + sum("speed_gears")
             value(k) == [num |-> sum(k), den |-> n]
             strong(k) == 4 * sum(k) >= total + 12 * n
             weak(k) == ~strong(k) /\ 4 * sum(k) <= total - 12 * n
             entry(k) == [area |-> AreaName(k), score |-> value(k), reasoning |-> k]
             above == SelectSeq(SubKeys, strong)
             below == SelectSeq(SubKeys, weak)
         IN  [strengths |-> [i \in 1..Len(above) |-> entry(above[i])],
              weaknesses |-> [i \in 1..Len(below) |-> entry(below[i])],
              average_scores |-> [k \in SubKeySet |-> value(k)]]

\* sub in area.lower(), for the area names of identify_strengths_weaknesses
AreaContains(area, sub) ==
    CASE area = "Distance Endurance" -> sub \in {"distance", "endurance"}
      [] area = "Pace Consistency"   -> sub \in {"pace", "consistency"}
      [] area = "Stroke Stability"   -> sub \in {"stroke", "stability"}
      [] area = "Speed Gears"        -> sub \in {"speed", "gear"}
      [] OTHER -> FALSE

\* a/b < c/d for positive denominators
FractionLess(x, y) == x.num * y.den < y.num * x.den

\* min(records, key=lambda x: x['score']): the first record of least score
RECURSIVE MinByScore(_)
MinByScore(rs) ==
    IF Len(rs) = 1 THEN rs[1]
    ELSE LET rest == MinByScore(Tail(rs))
         IN  IF FractionLess(rest.score, rs[1].score) THEN rest ELSE rs[1]

\* max(records, key=lambda x: x['score']): the first record of greatest score
RECURSIVE MaxByScore(_)
MaxByScore(rs) ==
    IF Len(rs) = 1 THEN rs[1]
    ELSE LET rest == MaxByScore(Tail(rs))
         IN  IF FractionLess(rs[1].score, rest.score) THEN rest ELSE rs[1]

\* Priority 1: Address weakest area
WeakestAreaRecord(weaknesses) ==
    IF weaknesses = <<>> THEN <<>>
    ELSE LET area == MinByScore(weaknesses).area
         IN  IF AreaContains(area, "distance") \/ AreaContains(area, "endurance")
             THEN <<[priority |-> "High", focus |-> "Build Aerobic Base"]>>
             ELSE IF AreaContains(area, "pace") \/ AreaContains(area, "consistency")
             THEN <<[priority |-> "High", focus |-> "Pacing Control"]>>
             ELSE IF AreaContains(area, "stroke") \/ AreaContains(area, "stability")
             THEN <<[priority |-> "High", focus |-> "Technique & Stroke Rate"]>>
             ELSE IF AreaContains(area, "speed") \/ AreaContains(area, "gear")
             THEN <<[priority |-> "High", focus |-> "Speed Development"]>>
             ELSE <<>>

\* Priority 2: Build on strengths
StrengthRecord(strengths) ==
    IF strengths = <<>> THEN <<>>
    ELSE LET area == MaxByScore(strengths).area
         IN  IF AreaContains(area, "distance") \/ AreaContains(area, "endurance")
             THEN <<[priority |-> "Medium", focus |-> "Leverage Endurance Strength"]>>
             ELSE <<>>

\* Priority 3: Overall progression
ProgressionRecord(trends) ==
    IF "score" \in DOMAIN trends /\ trends["score"].trend = "up"
    THEN <<[priority |-> "Low", focus |-> "Maintain Momentum"]>>
    ELSE IF "score" \in DOMAIN trends /\ trends["score"].trend = "down"
    THEN <<[priority |-> "High", focus |-> "Recovery & Deload"]>>
    ELSE <<>>

generate_training_recommendations_WeakestOnlyWithoutStrength(ws, trends, sw) ==
    (IF sw.strengths = <<>> THEN WeakestAreaRecord(sw.weaknesses) ELSE <<>>)
    \o StrengthRecord(sw.strengths) \o ProgressionRecord(trends)

\* generate_training_recommendations(workouts, trends, strengths_weaknesses);
\* of a record the keys priority and focus are kept (recommendation, reasoning
\* and frequency are fixed texts that go with the focus)
generate_training_recommendations(ws, trends, sw) ==
    WeakestAreaRecord(sw.weaknesses) \o StrengthRecord(sw.strengths)
    \o ProgressionRecord(trends)

\* analyze_multiple_workouts(workout_dataframes): what it returns, or that it
\* raises.  Of the returned dict the key summary is left out.
analyze_multiple_workouts(dfs) ==
    IF Len(dfs) = 0 THEN [status |-> "error", error |-> "No workouts provided"]
    ELSE LET analysed == AnalyzeAll(dfs, 1)
         IN  IF Len(analysed) = 0
             THEN [status |-> "error", error |-> "Could not analyze any workouts"]
             ELSE IF SortRaises(analysed)
             THEN [status |-> "raised", exception |-> "TypeError"]
             ELSE LET workouts == SortByDate(analysed)
                      trends == calculate_trends(workouts)
                      strengths_weaknesses == identify_strengths_weaknesses(workouts, trends)
                  IN  [status |-> "ok",
                       workouts |-> workouts,
                       time_series |-> extract_time_series(workouts),
                       trends |-> trends,
                       insights |-> generate_coach_insights(workouts, trends),
                       strengths_weaknesses |-> strengths_weaknesses,
                       recommendations |->
                           generate_training_recommendations(workouts, trends,
                                                             strengths_weaknesses)]

-----------------------------------------------------------------------------
(* pmc_calculator.py.  A date is a day number; a timestamp is [day, tod]    *)
(* with tod = 0 for 00:00:00 of that day and tod = 1 for any later time.    *)
(* In the duration and heart-rate columns None and 0 (both falsy) are 0;    *)
(* in sport_type and type None is "".  Every modelled row has a start_date  *)
(* (a row without one never passes the date filter of the query).           *)
(* TSS is in 1/100 point.  CTL and ATL are kept exactly, in units of        *)
(* 1/(100 * Scale) point with Scale = 42^MaxDays, so that the divisions by  *)
(* 42 and by 7 of the window's days leave no remainder.                     *)

MaxDays == 3

MaxActivities == 2

RECURSIVE Pow(_, _)
Pow(b, e) == IF e = 0 THEN 1 ELSE b * Pow(b, e - 1)

CtlPeriod == 42

AtlPeriod == 7

Scale == Pow(CtlPeriod, MaxDays)

RECURSIVE Gcd(_, _)
Gcd(a, b) == IF b = 0 THEN a ELSE Gcd(b, a % b)

\* round(p / q) to the nearest integer, ties to even (q > 0)
RoundHalfEven(p, q) ==
    LET f == p \div q
        r == p % q
    IN  IF 2 * r < q THEN f
        ELSE IF 2 * r > q THEN f + 1
        ELSE IF f % 2 = 0 THEN f ELSE f + 1

\* str.lower() on the sport names of the model
Lower(s) ==
    CASE s = "Swim" -> "swim"
      [] s = "OpenWaterSwim" -> "openwaterswim"
      [] s = "Run" -> "run"
      [] s = "Ride" -> "ride"
      [] s = "VirtualRide" -> "virtualride"
      [] s = "Unknown" -> "unknown"
      [] OTHER -> s

\* the lower-case names that contain 'swim', 'run', 'ride'/'bike'/'cycle'
ContainsSwim == {"swim", "openwaterswim"}

ContainsRun == {"run"}

ContainsRide == {"ride", "virtualride", "bike", "cycle"}

\* moving_time_s or elapsed_time_s or 0
Duration(activity) ==
    IF activity.moving_time_s # 0 THEN activity.moving_time_s
    ELSE activity.elapsed_time_s

\* the intensity factor as a fraction [n, d] in lowest terms
IntensityFactor(activity, sport_type) ==
    IF activity.average_heartrate # 0 /\ activity.max_heartrate # 0
    THEN LET n == 9 * activity.average_heartrate + activity.max_heartrate
             d == 10 * activity.max_heartrate
             g == Gcd(n, d)
         IN  IF n > d THEN [n |-> 1, d |-> 1]
             ELSE IF 10 * n < 3 * d THEN [n |-> 3, d |-> 10]
             ELSE [n |-> n \div g, d |-> d \div g]
    ELSE LET sport_lower == Lower(sport_type)
         IN  IF sport_lower \in ContainsSwim THEN [n |-> 3, d |-> 4]
             ELSE IF sport_lower \in ContainsRun THEN [n |-> 39, d |-> 50]
             ELSE IF sport_lower \in ContainsRide THEN [n |-> 7, d |-> 10]
             ELSE [n |-> 3, d |-> 4]

\* duration_hours * IF^2 * 100, rounded to 2 digits: in 1/100 point this is
\* round(duration_s * n^2 * 10000 / (3600 * d^2))
calculate_tss_for_activity(activity, sport_type) ==
    LET duration_s == Duration(activity)
    IN  IF duration_s = 0 THEN 0
        ELSE LET if_estimate == IntensityFactor(activity, sport_type)
             IN  RoundHalfEven(duration_s * if_estimate.n * if_estimate.n * 25,
                               9 * if_estimate.d * if_estimate.d)

\* calculate_pmc ------------------------------------------------------------

\* the user the chart is computed for
UserId == 1

\* datetime.now().date()
Today == MaxDays

\* column >= date and column <= date: the date bound is the timestamp of its
\* midnight, so a timestamp later on the bound's day is above the bound
TimestampGe(ts, date) == ts.day >= date

TimestampLe(ts, date) == ts.day < date \/ (ts.day = date /\ ts.tod = 0)

\* the sport filter of the query
SportMatches(activity, filter) ==
    IF filter # "" /\ Lower(filter) # "all"
    THEN LET sport_lower == Lower(filter)
         IN  IF sport_lower = "swim"
             THEN \/ Lower(activity.sport_type) \in {"swim", "openwaterswim"}
                  \/ Lower(activity.type) \in {"swim"}
             ELSE IF sport_lower = "run"
             THEN \/ Lower(activity.sport_type) = "run"
                  \/ Lower(activity.type) = "run"
             ELSE IF sport_lower \in {"ride", "bike"}
             THEN \/ Lower(activity.sport_type) \in {"ride", "virtualride"}
                  \/ Lower(activity.type) \in {"ride", "bike", "cycle"}
             ELSE TRUE
    ELSE TRUE

\* the rows the query returns
FetchActivities(rows, n, filter) ==
    LET end_date == Today
        start_date == end_date - n
    IN  { a \in rows : /\ a.user_id = UserId
                       /\ TimestampGe(a.start_date, start_date)
                       /\ TimestampLe(a.start_date, end_date)
                       /\ SportMatches(a, filter) }

\* sport_type or type or 'Unknown'
SportOf(activity) ==
    IF activity.sport_type # "" THEN activity.sport_type
    ELSE IF activity.type # "" THEN activity.type
    ELSE "Unknown"

RECURSIVE SumTss(_)
SumTss(rows) ==
    IF rows = {} THEN 0
    ELSE LET a == CHOOSE x \in rows : TRUE
         IN  calculate_tss_for_activity(a, SportOf(a)) + SumTss(rows \ {a})

\* the grouping loop: a key for every date with a fetched activity
GroupByDate(fetched) ==
    [d \in {a.start_date.day : a \in fetched} |->
        SumTss({a \in fetched : a.start_date.day = d})]

\* start_date, start_date + 1, ..., end_date
AllDates(n) == [i \in 1..(n + 1) |-> Today - n + i - 1]

\* ctl = 0.0 and atl = 0.0 before the loop
InitialLoad_SeededFromWindow(grouped) ==
    IF DOMAIN grouped = {} THEN 0
    ELSE grouped[CHOOSE d \in DOMAIN grouped : \A e \in DOMAIN grouped : d <= e] * Scale

InitialLoad(grouped) == 0

\* one EMA update; tss in 1/100 point, ema in 1/(100 * Scale) point
EmaStep_SkipRestDays(ema, tss, period) ==
    IF ema = 0 /\ tss > 0 THEN tss * Scale
    ELSE IF ema > 0 /\ tss > 0 THEN ema + (tss * Scale - ema) \div period
    ELSE ema

EmaStep(ema, tss, period) ==
    IF ema = 0 /\ tss > 0 THEN tss * Scale
    ELSE IF ema > 0 THEN ema + (tss * Scale - ema) \div period
    ELSE ema

\* the dict appended to pmc_data; the loads are rounded to 2 digits
PMCPoint(date, tss, c, a) ==
    [date |-> date,
     tss |-> tss,
     ctl |-> RoundHalfEven(c, Scale),
     atl |-> RoundHalfEven(a, Scale),
     tsb |-> RoundHalfEven(c - a, Scale)]

-----------------------------------------------------------------------------
(* Metric extraction: calculate_swim_metrics (analysis_engine.py) and      *)
(* calculate_hr_stability / calculate_cadence_stability                     *)
(* (analyze_long_runs.py).  A workout table df is a function from the names *)
(* of its columns to their sample lists; a missing sample is NaN.  Speed    *)
(* samples are in units of SpeedUnit cm/s.  Derived metrics are truncated   *)
(* to the whole units of the header (which keeps every test "< t" and       *)
(* ">= t" against a whole threshold t); std() is the sample standard        *)
(* deviation of pandas (ddof = 1), which is NaN for a single sample.  The   *)
(* keys nothing downstream reads (speed_std, stroke_rate_std,               *)
(* stroke_rate_drop_pct, the efficiency keys) are left out of the bundle.   *)

SpeedUnit == 10

RECURSIVE Expand(_)
\* the sample list of a signal given as runs [v, n]: n samples of value v
Expand(runs) ==
    IF runs = <<>> THEN <<>>
    ELSE [i \in 1..runs[1].n |-> runs[1].v] \o Expand(Tail(runs))

\* Series.dropna()
DropNa(xs) == SelectSeq(xs, LAMBDA x : x # NaN)

\* speed_data[speed_data > 0]
PositiveOnly(xs) == SelectSeq(xs, LAMBDA x : x > 0)

\* stroke_rate[(stroke_rate > 0) & (stroke_rate < 100)]
ReasonableRange(xs) == SelectSeq(xs, LAMBDA x : x > 0 /\ x < 100)

RECURSIVE ScaledDiv(_, _, _)
\* floor(a * 10^d / b) for a >= 0, b > 0, by long division
ScaledDiv(a, b, d) ==
    IF d = 0 THEN a \div b
    ELSE (a \div b) * Pow(10, d) + ScaledDiv((a % b) * 10, b, d - 1)

\* floor(sqrt(x))
Isqrt(x) == CHOOSE k \in 0..1000 : k * k <= x /\ (k + 1) * (k + 1) > x

\* std() / mean() * 100 of a list with mean > 0, truncated to whole percent:
\* with S = sum, Q = sum of squares, the square of it is
\* 10^4 * n * (n*Q - S^2) / ((n - 1) * S^2)
CvPercent(xs) ==
    LET n == Len(xs)
        s == SumSeq(xs)
        q == SumSquares(xs)
    IN  IF n = 1 THEN NaN
        ELSE Isqrt(ScaledDiv(n * (n * q - s * s), (n - 1) * s * s, 4))

\* floor of the difference of two means a/m - b/k
MeanDiff(a, m, b, k) == (a * k - b * m) \div (m * k)

RECURSIVE GearLoop_ForgetsLastRun(_, _, _, _, _)
GearLoop_ForgetsLastRun(xs, i, s, len, count) ==
    IF i > Len(xs)
    THEN count
    ELSE IF 100 * Len(xs) * xs[i] >= 115 * s
         THEN GearLoop_ForgetsLastRun(xs, i + 1, s, len + 1, count)
         ELSE GearLoop_ForgetsLastRun(xs, i + 1, s, 0, IF len >= 20 THEN count + 1 ELSE count)

RECURSIVE GearLoop(_, _, _, _, _)
\* the loop over fast_segments; len > 0 iff in_fast_segment
GearLoop(xs, i, s, len, count) ==
    IF i > Len(xs)
    THEN IF len >= 20 THEN count + 1 ELSE count
    ELSE IF 100 * Len(xs) * xs[i] >= 115 * s
         THEN GearLoop(xs, i + 1, s, len + 1, count)
         ELSE GearLoop(xs, i + 1, s, 0, IF len >= 20 THEN count + 1 ELSE count)

\* the speed part of the bundle (lines 39-64); frame is the argument df
SpeedMetrics(frame) ==
    IF "enhanced_speed" \notin DOMAIN frame /\ "speed" \notin DOMAIN frame THEN <<>>
    ELSE LET speed_col == IF "enhanced_speed" \in DOMAIN frame THEN "enhanced_speed" ELSE "speed"
             speed_data == PositiveOnly(DropNa(frame[speed_col]))
             n == Len(speed_data)
             s == SumSeq(speed_data)
             stops == Len(SelectSeq(speed_data, LAMBDA x : 10 * n * x < s))
         IN  IF n > 0
             THEN [speed |-> n,
                   speed_avg |-> (SpeedUnit * s) \div n,
                   speed_cv |-> CvPercent(speed_data),
                   num_stops |-> stops,
                   stop_percentage |-> (100 * stops) \div n]
             ELSE [speed |-> 0, speed_avg |-> 0, speed_cv |-> 100, stop_percentage |-> 100]

\* the stroke-rate part (lines 66-81); -len//5 is -(ceil(len/5))
StrokeMetrics(frame) ==
    IF "cadence" \notin DOMAIN frame THEN <<>>
    ELSE LET stroke_rate == ReasonableRange(DropNa(frame["cadence"]))
             n == Len(stroke_rate)
             h == n \div 5
             t == (n + 4) \div 5
             first_20 == SubSeq(stroke_rate, 1, h)
             last_20 == SubSeq(stroke_rate, n - t + 1, n)
         IN  [stroke_rate |-> n]
             @@ (IF n > 0
                 THEN [stroke_rate_avg |-> SumSeq(stroke_rate) \div n,
                       stroke_rate_cv |-> CvPercent(stroke_rate)]
                 ELSE <<>>)
             @@ (IF n > 20
                 THEN [stroke_rate_drop |-> MeanDiff(SumSeq(first_20), h, SumSeq(last_20), t)]
                 ELSE <<>>)

\* the speed-gear part (lines 83-110), on the cleaned speed array
GearMetrics(frame) ==
    LET sm == SpeedMetrics(frame)
    IN  IF "speed" \in DOMAIN sm /\ sm["speed"] > 50
        THEN LET speed_col == IF "enhanced_speed" \in DOMAIN frame THEN "enhanced_speed" ELSE "speed"
                 speed_arr == PositiveOnly(DropNa(frame[speed_col]))
                 fast_segment_count == GearLoop(speed_arr, 1, SumSeq(speed_arr), 0, 0)
             IN  [speed_gear_count |-> fast_segment_count,
                  has_speed_gears |-> IF fast_segment_count > 0 THEN 1 ELSE 0]
        ELSE <<>>

calculate_swim_metrics(frame) == SpeedMetrics(frame) @@ StrokeMetrics(frame) @@ GearMetrics(frame)

\* the tail shared by the two stability functions of analyze_long_runs.py:
\* cv, the difference of the half means, and the 0-100 score
StabilityOf(data, cvWeight, diffWeight, diffKey, sign) ==
    IF Len(data) < 10
    THEN [k \in {"stability_score", "cv", diffKey} |-> IF k = "cv" THEN 100 ELSE 0]
    ELSE LET n == Len(data)
             mid_point == n \div 2
             s1 == SumSeq(SubSeq(data, 1, mid_point))
             s2 == SumSeq(SubSeq(data, mid_point + 1, n))
             cv == IF s1 + s2 > 0 THEN CvPercent(data) ELSE 100
             diff == IF sign > 0 THEN MeanDiff(s2, n - mid_point, s1, mid_point)
                     ELSE MeanDiff(s1, mid_point, s2, n - mid_point)
         IN  [k \in {"stability_score", "cv", diffKey} |->
                 CASE k = "cv" -> cv
                   [] k = diffKey -> diff
                   [] OTHER -> Max(0, 100 - cv * cvWeight - Abs(diff) * diffWeight)]

calculate_hr_stability(frame) ==
    IF "heart_rate" \notin DOMAIN frame
    THEN [stability_score |-> 0, cv |-> 100, drift |-> 0]
    ELSE StabilityOf(DropNa(frame["heart_rate"]), 10, 2, "drift", 1)

calculate_cadence_stability(frame) ==
    IF DOMAIN frame \cap {"cadence", "running_cadence", "session_avg_running_cadence"} = {}
    THEN [stability_score |-> 0, cv |-> 100, degradation |-> 0]
    ELSE LET cadence_col == IF "cadence" \in DOMAIN frame THEN "cadence"
                            ELSE IF "running_cadence" \in DOMAIN frame THEN "running_cadence"
                            ELSE "session_avg_running_cadence"
         IN  StabilityOf(DropNa(frame[cadence_col]), 15, 5, "degradation", -1)

\* calculate_pace_stability(df) of analyze_long_runs.py.  Only dropna() cleans
\* the column (zeros stay).  With the half sums s1 (of h samples) and s2 (of k
\* samples) in SpeedUnit cm/s, first_pace = 500 h / (3 s1) min/km and
\* pace_degradation = 500 (k s1 - h s2) / (3 s1 s2); degradation is kept in
\* 1/100 min/km (truncated towards zero), stability_score in 1/100 point and
\* avg_speed in cm/s.
PaceStabilityOf(speed_data) ==
    IF Len(speed_data) < 10 THEN [stability_score |-> 0, degradation |-> 0]
    ELSE LET n == Len(speed_data)
             mid_point == n \div 2
             k == n - mid_point
             s1 == SumSeq(SubSeq(speed_data, 1, mid_point))
             s2 == SumSeq(SubSeq(speed_data, mid_point + 1, n))
             num == k * s1 - mid_point * s2
             size == IF s1 > 0 /\ s2 > 0
                     THEN ScaledDiv(500 * Abs(num), 3 * s1 * s2, 2)
                     ELSE 0
         IN  [stability_score |-> Max(0, 10000 - size * 40),
              degradation |-> IF num < 0 THEN -size ELSE size,
              avg_speed |-> (SpeedUnit * (s1 + s2)) \div n]

calculate_pace_stability(frame) ==
    IF DOMAIN frame \cap {"speed", "enhanced_speed", "session_avg_speed"} = {}
    THEN [stability_score |-> 0, degradation |-> 0]
    ELSE LET speed_col == IF "speed" \in DOMAIN frame THEN "speed"
                          ELSE IF "enhanced_speed" \in DOMAIN frame THEN "enhanced_speed"
                          ELSE "session_avg_speed"
         IN  PaceStabilityOf(DropNa(frame[speed_col]))

\* the 'metrics' entry of the dict analyze_workout returns (lines 445-462),
\* after convert_to_native_types (a numpy nan stays a float nan); the sample
\* lists are given by their lengths
analyze_workout_metrics(metadata, m) ==
    [distance_m |-> Get(m, "distance_m", 0),
     total_time_sec |-> Get(metadata, "total_time_sec", 0),
     avg_speed_ms |-> Get(metadata, "avg_speed_ms", 0),
     avg_stroke_rate |-> Get(metadata, "avg_stroke_rate", 0),
     speed_cv |-> Get(m, "speed_cv", 0),
     stop_percentage |-> Get(m, "stop_percentage", 0),
     stroke_rate_cv |-> Get(m, "stroke_rate_cv", 0),
     stroke_rate_drop |-> Get(m, "stroke_rate_drop", 0),
     speed_gear_count |-> Get(m, "speed_gear_count", 0),
     has_speed_gears |-> Get(m, "has_speed_gears", 0),
     speed_data |-> Get(m, "speed", 0),
     stroke_rate_data |-> Get(m, "stroke_rate", 0)]

-----------------------------------------------------------------------------
(* generate_verdict and prescribe_next_workout.  The texts are the code's,  *)
(* with the dash and the multiplication sign in ASCII and "/" for the line  *)
(* breaks of main_set.                                                       *)

\* min(sub_scores, key=sub_scores.get): the first key, in insertion order,
\* that holds the smallest value
MinScoreKey_LastWins(s) ==
    SubKeys[CHOOSE i \in 1..Len(SubKeys) :
                /\ \A j \in 1..Len(SubKeys) : s[SubKeys[i]] <= s[SubKeys[j]]
                /\ \A j \in (i + 1)..Len(SubKeys) : s[SubKeys[i]] < s[SubKeys[j]]]

MinScoreKey(s) ==
    SubKeys[CHOOSE i \in 1..Len(SubKeys) :
                /\ \A j \in 1..Len(SubKeys) : s[SubKeys[i]] <= s[SubKeys[j]]
                /\ \A j \in 1..(i - 1) : s[SubKeys[i]] < s[SubKeys[j]]]

generate_verdict(g, s, wt, m) ==
    IF g = "A" THEN "Strong execution across all metrics - excellent session"
    ELSE IF g = "B"
    THEN LET min_score_key == MinScoreKey(s)
         IN  IF min_score_key = "speed_gears"
             THEN "Strong aerobic base, speed gear missing"
             ELSE IF min_score_key = "pace_consistency"
             THEN "Good effort, pacing needs more consistency"
             ELSE IF min_score_key = "stroke_stability"
             THEN "Solid swim, stroke rate stability needs work"
             ELSE "Good session with clear improvement areas"
    ELSE IF g = "C"
    THEN IF Gt(Get(m, "stop_percentage", 0), 20)
         THEN "Too many interruptions - focus on continuous swimming"
         ELSE IF Gt(Get(m, "speed_cv", 0), 15)
         THEN "Pacing too chaotic - structure your sets better"
         ELSE "Session completed but needs better structure"
    ELSE IF Gt(Get(m, "stop_percentage", 0), 30)
         THEN "Major breakdown - too many stops, unreliable data"
         ELSE "Poor execution - focus on fundamentals"

SpeedGearPlan ==
    [main_set |-> "12x100 @ moderate-hard, 20s rest / Cue: Hold stroke rate 34-36 spm, no over-glide",
     key_focus |-> "Speed gear development",
     drill_set |-> "8x25 fast (easy back) - focus on turnover"]

PacingPlan ==
    [main_set |-> "6x200 @ controlled pace, 30s rest / Rule: Rep 1 must feel 'too easy' / Cue: Even splits > fast rep 1",
     key_focus |-> "Pacing control",
     drill_set |-> "4x50 build (easy to fast) - feel the pace change"]

StrokePlan ==
    [main_set |-> "10x100 @ steady, 15s rest / Cue: Count strokes per length, maintain rhythm",
     key_focus |-> "Stroke rate consistency",
     drill_set |-> "6x50 with stroke count focus - efficiency over speed"]

DistancePlan ==
    [main_set |-> "3x500 continuous @ easy-moderate, 1 min rest / Cue: Build volume, maintain form",
     key_focus |-> "Aerobic base building",
     drill_set |-> "200 easy with focus on breathing rhythm"]

ThresholdPlan ==
    [main_set |-> "8x150 @ threshold, 20s rest / Cue: Strong but controlled, negative split last 2",
     key_focus |-> "Threshold development",
     drill_set |-> "6x50 technique focus - streamline and catch"]

AerobicPlan ==
    [main_set |-> "5x200 @ aerobic, 30s rest / Cue: Steady effort, focus on form",
     key_focus |-> "Aerobic base",
     drill_set |-> "200 easy technique - long strokes"]

prescribe_next_workout(g, s, wt, m) ==
    LET min_score_key == MinScoreKey(s)
    IN  IF \/ min_score_key = "speed_gears"
           \/ (wt = "Endurance" /\ Get(m, "has_speed_gears", 0) = 0)
        THEN SpeedGearPlan
        ELSE IF min_score_key = "pace_consistency" THEN PacingPlan
        ELSE IF min_score_key = "stroke_stability" THEN StrokePlan
        ELSE IF min_score_key = "distance_endurance" THEN DistancePlan
        ELSE IF g \in {"A", "B"} THEN ThresholdPlan
        ELSE AerobicPlan

-----------------------------------------------------------------------------
(* strava_retry.py.  What func() yields in one invocation is an outcome:    *)
(* a response with a status code, an object without status_code, or a      *)
(* raised exception (httpx.HTTPStatusError carrying the response status,    *)
(* httpx.NetworkError, httpx.TimeoutException, or any other exception,      *)
(* here ValueError).  Times are in seconds.                                 *)

MAX_RETRIES == 3
INITIAL_BACKOFF == 1
MAX_BACKOFF == 60
BACKOFF_MULTIPLIER == 2
RETRYABLE_STATUS_CODES == {429, 500, 502, 503, 504}

Response(status) == [kind |-> "response", status |-> status]
Raised(exc, status) == [kind |-> exc, status |-> status]
PlainObject == [kind |-> "object", status |-> 0]

IsNetworkError(o) == o.kind \in {"NetworkError", "TimeoutException"}

\* one pass through the body of "for attempt in range(max_retries + 1)" after
\* func() yielded o: sleep and continue, return the result, or raise
RetryDecision_RetriesEveryErrorStatus(o, att, maxr) ==
    IF o.kind = "response"
    THEN IF o.status >= 400 /\ att < maxr
         THEN [do |-> "sleep", exc |-> Raised("HTTPStatusError", o.status)]
         ELSE IF o.status >= 400
         THEN [do |-> "raise", exc |-> Raised("HTTPStatusError", o.status)]
         ELSE [do |-> "return", exc |-> o]
    ELSE IF o.kind = "object" THEN [do |-> "return", exc |-> o]
    ELSE IF o.kind = "HTTPStatusError"
    THEN IF att < maxr
         THEN [do |-> "sleep", exc |-> o]
         ELSE [do |-> "raise", exc |-> o]
    ELSE IF IsNetworkError(o)
    THEN IF att < maxr THEN [do |-> "sleep", exc |-> o] ELSE [do |-> "raise", exc |-> o]
    ELSE [do |-> "raise", exc |-> o]

RetryDecision(o, att, maxr) ==
    IF o.kind = "response"
    THEN IF o.status \in RETRYABLE_STATUS_CODES /\ att < maxr
         THEN [do |-> "sleep", exc |-> Raised("HTTPStatusError", o.status)]
         ELSE IF o.status >= 400
         \* result.raise_for_status(), caught by "except httpx.HTTPStatusError",
         \* which re-raises: not retryable, or the last attempt
         THEN [do |-> "raise", exc |-> Raised("HTTPStatusError", o.status)]
         ELSE [do |-> "return", exc |-> o]
    ELSE IF o.kind = "object" THEN [do |-> "return", exc |-> o]
    ELSE IF o.kind = "HTTPStatusError"
    THEN IF o.status \in RETRYABLE_STATUS_CODES /\ att < maxr
         THEN [do |-> "sleep", exc |-> o]
         ELSE [do |-> "raise", exc |-> o]
    ELSE IF IsNetworkError(o)
    THEN IF att < maxr THEN [do |-> "sleep", exc |-> o] ELSE [do |-> "raise", exc |-> o]
    ELSE [do |-> "raise", exc |-> o]

\* backoff = min(backoff * backoff_multiplier, max_backoff)
NextBackoff(b) == Min(b * BACKOFF_MULTIPLIER, MAX_BACKOFF)

-----------------------------------------------------------------------------
(* strava_rate_limiter.py.  Time is in seconds, read from a clock that      *)
(* steps by half a window: the sleeps of retry_with_backoff (1 + 2 + 4 s at *)
(* most) are below its resolution.  A deque of request timestamps is kept   *)
(* as its runs [t, n] (n requests stamped t), oldest first; its length is   *)
(* the sum of the n.                                                        *)

RATE_LIMIT_15MIN == 200
RATE_LIMIT_DAY == 2000
WINDOW_15MIN == 900
WINDOW_DAY == 86400

\* len(deque)
RequestCount(dq) == SumSeq([i \in 1..Len(dq) |-> dq[i].n])

\* one deque after _clean_old_requests() at time t: popleft while the oldest
\* stamp is < t - window
CleanOld(dq, t, window) == SelectSeq(dq, LAMBDA r : ~(r.t < t - window))

\* deque.append(current_time)
RecordCall(dq, t) ==
    IF dq # <<>> /\ dq[Len(dq)].t = t
    THEN [dq EXCEPT ![Len(dq)].n = @ + 1]
    ELSE Append(dq, [t |-> t, n |-> 1])

\* one limit of check_rate_limit, on the cleaned deque: the limit is hit and
\* the wait for the oldest request to leave the window is positive
LimitHit(dq, t, limit, window) ==
    RequestCount(dq) >= limit /\ (dq[1].t + window) - t > 0

\* can_proceed of check_rate_limit() at time t
check_rate_limit(d15, dday, t) ==
    /\ ~LimitHit(CleanOld(d15, t, WINDOW_15MIN), t, RATE_LIMIT_15MIN, WINDOW_15MIN)
    /\ ~LimitHit(CleanOld(dday, t, WINDOW_DAY), t, RATE_LIMIT_DAY, WINDOW_DAY)

\* get_rate_limit_status()["remaining_15min"] at time t
Remaining15Min(d15, t) ==
    Max(0, RATE_LIMIT_15MIN - RequestCount(CleanOld(d15, t, WINDOW_15MIN)))

-----------------------------------------------------------------------------
(* strava_sync.py: sync_activities, one coroutine per running sync.  A      *)
(* coroutine runs without interruption from one await to the next; its      *)
(* awaits are client.get (inside fetch_page, after record_api_call) and     *)
(* asyncio.sleep (inside retry_with_backoff).  The user row and the access  *)
(* token exist.  A page that came back is "more" when it holds `limit` new  *)
(* activities (the loop goes on) and "last" when it is empty, short, or     *)
(* reaches the last sync time.  retried is 1 once an attempt after the  *)
(* first has called fetch_page().                                           *)

\* max_pages of every sync_activities call modelled (the default is 10, the
\* background job passes 3)
MaxPagesArg == 2

\* a successful page
Page(more) == [kind |-> "response", status |-> 200, more |-> more]

\* a coroutine that is over: its locals are gone
Finished(s, outcome) ==
    [s EXCEPT !.at = "done", !.page = 0, !.attempt = 0, !.backoff = 0, !.outcome = outcome]

\* a coroutine that has not been started
NotStarted ==
    [at |-> "start", page |-> 0, attempt |-> 0, backoff |-> 0,
     pages_fetched |-> 0, retried |-> 0, outcome |-> "none"]

\* lines 100-115 at time t: the check before a page and, if it passes, the
\* first fetch_page() of retry_with_backoff, up to "await client.get".  Gives
\* the coroutine and the two deques.
BeginPage(s, page, d15, dday, t, max_pages) ==
    LET c15 == CleanOld(d15, t, WINDOW_15MIN)
        cday == CleanOld(dday, t, WINDOW_DAY)
    IN  IF page > max_pages
        THEN [sync |-> Finished(s, "returned"),
              d15 |-> d15, dday |-> dday]
        ELSE IF ~check_rate_limit(d15, dday, t)
        THEN [sync |-> Finished(s, "returned"),
              d15 |-> c15, dday |-> cday]
        ELSE [sync |-> [s EXCEPT !.at = "get", !.page = page, !.attempt = 0,
                                 !.backoff = INITIAL_BACKOFF],
              d15 |-> RecordCall(c15, t), dday |-> RecordCall(cday, t)]

\* lines 87-115: the check before starting, then the first page
BeginSync(s, d15, dday, t, max_pages) ==
    IF ~check_rate_limit(d15, dday, t)
    THEN [sync |-> Finished(s, "ValueError"),
          d15 |-> CleanOld(d15, t, WINDOW_15MIN), dday |-> CleanOld(dday, t, WINDOW_DAY)]
    ELSE BeginPage(s, 1, d15, dday, t, max_pages)

\* client.get came back with o: the rest of the attempt of retry_with_backoff
\* and, for a page, lines 122-196 and the next turn of the loop
AfterGet(s, o, d15, dday, t, max_pages) ==
    LET d == RetryDecision(o, s.attempt, MAX_RETRIES)
    IN  CASE d.do = "sleep" ->
                 [sync |-> [s EXCEPT !.at = "sleep"],
                  d15 |-> d15, dday |-> dday]
          [] d.do = "raise" ->
                 [sync |-> Finished(s, IF d.exc.kind = "HTTPStatusError"
                                          /\ d.exc.status \in {401, 429}
                                       THEN "ValueError" ELSE d.exc.kind),
                  d15 |-> d15, dday |-> dday]
          [] d.do = "return" ->
                 IF o.more
                 THEN BeginPage([s EXCEPT !.pages_fetched = @ + 1], s.page + 1,
                                d15, dday, t, max_pages)
                 ELSE [sync |-> Finished([s EXCEPT !.pages_fetched = @ + 1], "returned"),
                       d15 |-> d15, dday |-> dday]

\* asyncio.sleep(backoff) is over at time t: the next attempt calls
\* fetch_page(), which records the call and awaits client.get
AfterSleep(s, d15, dday, t) ==
    [sync |-> [s EXCEPT !.at = "get", !.attempt = @ + 1, !.backoff = NextBackoff(@),
                         !.retried = 1],
     d15 |-> RecordCall(d15, t), dday |-> RecordCall(dday, t)]

-----------------------------------------------------------------------------
(* strava_background_sync.py: BackgroundSyncJob.  A run_loop task is a      *)
(* record: at is the await it is suspended in ("created" before its first   *)
(* step, "sync" inside sync_user, "pause" in sleep(60), "delay" in          *)
(* sleep(SYNC_DELAY_BETWEEN_USERS), "interval" in the sleep between rounds, *)
(* "done" once finished); cancel says task.cancel() was called on it; i is  *)
(* the index of the loop over users_with_tokens; passed, called and skipped *)
(* describe the round it is in: whether the first quota check passed, the   *)
(* users sync_user was called for, the users passed over by "continue".     *)

SYNC_INTERVAL_MINUTES == 60
SYNC_BATCH_SIZE == 5

NewTask ==
    [at |-> "created", cancel |-> FALSE, i |-> 0, passed |-> FALSE,
     called |-> {}, skipped |-> {}, sync |-> NotStarted]

\* a task that is over: its locals are gone
TaskDone(t) ==
    [t EXCEPT !.at = "done", !.i = 0, !.passed = FALSE, !.called = {}, !.skipped = {},
              !.sync = NotStarted]

NoRound == [passed |-> FALSE, broke |-> FALSE, called |-> {}, skipped |-> {}, users |-> 0]

\* sync_all_users returns (broke: the loop was left by "break"); run_loop
\* then sleeps until the next round if self.running, and ends otherwise
RoundOver(t, broke, run, d15, dday, n) ==
    [task |-> IF run THEN [t EXCEPT !.at = "interval"] ELSE TaskDone(t),
     round |-> [passed |-> t.passed, broke |-> broke, called |-> t.called,
                skipped |-> t.skipped, users |-> n],
     d15 |-> d15, dday |-> dday]

\* lines 102-104: after sync_user for user t.i of n
AfterSyncUser(t, run, d15, dday, n) ==
    IF t.i < n
    THEN [task |-> [t EXCEPT !.at = "delay"], round |-> NoRound, d15 |-> d15, dday |-> dday]
    ELSE RoundOver(t, FALSE, run, d15, dday, n)

\* lines 86-100: one turn of "for i, user in enumerate(users_with_tokens)"
\* for user i of n at the given time, up to the next await
sync_all_users_turn(t, i, run, d15, dday, time, n) ==
    LET c15 == CleanOld(d15, time, WINDOW_15MIN)
        cday == CleanOld(dday, time, WINDOW_DAY)
        b == BeginSync(NotStarted, c15, cday, time, MaxPagesArg)
        called == [t EXCEPT !.i = i, !.called = @ \cup {i}, !.sync = b.sync]
    IN  IF i > n THEN RoundOver(t, FALSE, run, d15, dday, n)
        ELSE IF ~run THEN RoundOver(t, TRUE, run, d15, dday, n)
        ELSE IF Remaining15Min(d15, time) < 5
        \* await asyncio.sleep(60); continue
        THEN [task |-> [t EXCEPT !.at = "pause", !.i = i, !.skipped = @ \cup {i}],
              round |-> NoRound, d15 |-> c15, dday |-> cday]
        \* sync_user: sync_activities up to its first await
        ELSE IF b.sync.at = "done"
        THEN AfterSyncUser(called, run, b.d15, b.dday, n)
        ELSE [task |-> [called EXCEPT !.at = "sync"],
              round |-> NoRound, d15 |-> b.d15, dday |-> b.dday]

\* lines 117-119 and 58-85: the top of "while self.running" and the start of
\* sync_all_users for n users with tokens
run_loop_top(t, run, d15, dday, time, n) ==
    LET r == [t EXCEPT !.passed = FALSE, !.called = {}, !.skipped = {}, !.i = 0]
    IN  IF ~run
        THEN [task |-> TaskDone(t), round |-> NoRound, d15 |-> d15, dday |-> dday]
        ELSE IF Remaining15Min(d15, time) < SYNC_BATCH_SIZE
        THEN RoundOver(r, FALSE, run, CleanOld(d15, time, WINDOW_15MIN),
                       CleanOld(dday, time, WINDOW_DAY), n)
        ELSE sync_all_users_turn([r EXCEPT !.passed = TRUE], 1, run, d15, dday, time, n)

\* the step a task takes when the sleep it is suspended in is over, or when
\* it runs for the first time
WakeTask(t, run, d15, dday, time, n) ==
    IF t.at \in {"created", "interval"}
    THEN run_loop_top(t, run, d15, dday, time, n)
    ELSE sync_all_users_turn(t, t.i + 1, run, d15, dday, time, n)

\* the step a task inside sync_user takes when its sync_activities coroutine
\* has gone on to s (a raise of sync_activities is caught by sync_user)
SyncUserStep(t, s, run, n) ==
    IF s.sync.at = "done"
    THEN AfterSyncUser([t EXCEPT !.sync = s.sync], run, s.d15, s.dday, n)
    ELSE [task |-> [t EXCEPT !.sync = s.sync], round |-> NoRound,
          d15 |-> s.d15, dday |-> s.dday]

job_start_WithoutGuard(run, tsk, tks) ==
    [running |-> TRUE, task |-> Len(tks) + 1, tasks |-> Append(tks, NewTask)]

\* start(): self.running, self.task (an index into the tasks, 0 for None)
\* and the tasks after the call
job_start(run, tsk, tks) ==
    IF run
    THEN [running |-> run, task |-> tsk, tasks |-> tks]
    ELSE [running |-> TRUE, task |-> Len(tks) + 1, tasks |-> Append(tks, NewTask)]

\* task.cancel(): nothing for a task that is done
CancelTask(t) == IF t.at = "done" THEN t ELSE [t EXCEPT !.cancel = TRUE]

\* stop()
job_stop(run, tsk, tks) ==
    IF ~run
    THEN [running |-> run, task |-> tsk, tasks |-> tks]
    ELSE [running |-> FALSE, task |-> tsk,
          tasks |-> IF tsk # 0 THEN [tks EXCEPT ![tsk] = CancelTask(@)] ELSE tks]

-----------------------------------------------------------------------------
(* strava_store.py: get_or_create_user, and the users table of models.py.   *)
(* Every call has a database session of its own; a statement or a commit of *)
(* one session is atomic with respect to the others.  A row is              *)
(* [id, strava_athlete_id, strava_username]; athlete_info is its username,  *)
(* "" for None.  integrity_error says the call got IntegrityError.           *)

NoCall ==
    [at |-> "idle", athlete_id |-> 0, athlete_info |-> "", user |-> 0,
     integrity_error |-> FALSE]

\* db.query(User).filter(User.strava_athlete_id == athlete_id).first():
\* the id of the row, 0 for None
QueryUser(rows, athlete_id) ==
    IF \E r \in rows : r.strava_athlete_id = athlete_id
    THEN (CHOOSE r \in rows : r.strava_athlete_id = athlete_id).id
    ELSE 0

UniqueViolation_NoConstraint(rows, athlete_id) == FALSE

\* unique=True on users.strava_athlete_id: an INSERT of athlete_id fails
UniqueViolation(rows, athlete_id) ==
    \E r \in rows : r.strava_athlete_id = athlete_id

\* the call after a query found the row with this id: with athlete_info it
\* goes on to commit the update, without it returns the row
Found(c, id) ==
    IF c.athlete_info # ""
    THEN [c EXCEPT !.at = "updating", !.user = id]
    ELSE [c EXCEPT !.at = "returned", !.user = id]

\* lines 35-62: the first query, and db.add(user) if it finds nothing
FirstQuery(c, rows) ==
    IF QueryUser(rows, c.athlete_id) # 0
    THEN Found(c, QueryUser(rows, c.athlete_id))
    ELSE [c EXCEPT !.at = "adding"]

\* lines 64-67 and 68-70: db.commit() of the new row, which gets the next
\* value of the id sequence; IntegrityError leads to db.rollback()
CommitInsert(c, rows, next_id) ==
    IF UniqueViolation(rows, c.athlete_id)
    THEN [call |-> [c EXCEPT !.at = "rolled_back", !.integrity_error = TRUE], rows |-> rows]
    ELSE [call |-> [c EXCEPT !.at = "returned", !.user = next_id],
          rows |-> rows \cup {[id |-> next_id, strava_athlete_id |-> c.athlete_id,
                               strava_username |-> c.athlete_info]}]

\* lines 40-51 and 75-85: db.commit() of the updated athlete info
CommitUpdate(c, rows) ==
    [call |-> [c EXCEPT !.at = "returned"],
     rows |-> {IF r.id = c.user THEN [r EXCEPT !.strava_username = c.athlete_info] ELSE r
               : r \in rows}]

\* lines 71-87: the query after the rollback; "raise" if it finds nothing
SecondQuery(c, rows) ==
    IF QueryUser(rows, c.athlete_id) # 0
    THEN Found(c, QueryUser(rows, c.athlete_id))
    ELSE [c EXCEPT !.at = "raised"]

-----------------------------------------------------------------------------
(* Parts of the state a specification does not use *)

NoResult == [status |-> "none"]

IdleScorer ==
    /\ metrics = <<>>
    /\ workout_type = ""
    /\ sub_scores = [k \in SubKeySet |-> 0]
    /\ total_score = 0
    /\ grade = ""
    /\ pros = <<>>
    /\ cons = <<>>

IdleTrend ==
    /\ workout_dataframes = <<>>
    /\ result = NoResult

IdlePmc ==
    /\ activities = {}
    /\ days = 0
    /\ sport_filter = ""
    /\ daily_tss = <<>>
    /\ all_dates = <<>>
    /\ date_idx = 0
    /\ ctl = 0
    /\ atl = 0
    /\ pmc_data = <<>>

IdleAdvice ==
    /\ verdict = ""
    /\ prescription = [main_set |-> "", key_focus |-> "", drill_set |-> ""]

IdleMetrics ==
    /\ df = <<>>
    /\ swim_metrics = <<>>
    /\ hr_stability = <<>>
    /\ cadence_stability = <<>>
    /\ pace_stability = <<>>
    /\ analysis_metrics = <<>>

IdleRetry ==
    /\ max_retries = 0
    /\ attempt = 0
    /\ backoff = 0
    /\ last_exception = <<>>
    /\ invocations = <<>>
    /\ sleeps = <<>>
    /\ retry_result = <<>>

IdleLimiter ==
    /\ now = 0
    /\ rate_limit_15min = <<>>
    /\ rate_limit_day = <<>>

IdleSync == syncs = <<>>

IdleJob ==
    /\ running = FALSE
    /\ task = 0
    /\ tasks = <<>>
    /\ rounds_started = 0
    /\ last_round = <<>>
    /\ last_call = <<>>

IdleStore ==
    /\ users = {}
    /\ next_user_id = 0
    /\ calls = <<>>

IdleService == IdleLimiter /\ IdleSync /\ IdleJob /\ IdleStore

IdleNet == IdleRetry /\ IdleService

-----------------------------------------------------------------------------
(* Specification SpecScore: score_swim_workout applied to every bundle of   *)
(* ScoreBundles and every workout type.                                     *)

DistanceVals   == {Absent, 0, 400, 500, 1000, 1500, 2000}
StopPctVals    == {Absent, 2, 5, 10, 25}
SpeedCvVals    == {Absent, NaN, 2, 4, 6, 10}
StrokeCvVals   == {Absent, NaN, 4, 5, 10}
StrokeDropVals == {Absent, -6, 1, 2, 4}
GearVals       == {Absent, 0, 1, 4, 5}
HasGearVals    == {Absent, 0, 1}

ScoreBundles ==
    { Bundle(r) : r \in [distance_m : DistanceVals, stop_percentage : StopPctVals,
                         speed_cv : SpeedCvVals, stroke_rate_cv : StrokeCvVals,
                         stroke_rate_drop : StrokeDropVals,
                         speed_gear_count : GearVals, has_speed_gears : HasGearVals] }

NoSubScores == [k \in SubKeySet |-> 0]

InitScore ==
    /\ metrics \in ScoreBundles
    /\ workout_type \in WorkoutTypes
    /\ sub_scores = NoSubScores
    /\ total_score = 0
    /\ grade = ""
    /\ pros = <<>>
    /\ cons = <<>>
    /\ IdleTrend
    /\ IdlePmc
    /\ IdleMetrics
    /\ IdleAdvice
    /\ IdleNet
    /\ pc = "score"

ScoreSwimWorkout ==
    /\ pc = "score"
    /\ LET r == score_swim_workout(metrics, workout_type)
       IN  /\ grade' = r.grade
           /\ sub_scores' = r.sub_scores
           /\ total_score' = r.total_score
    /\ pc' = "scored"
    /\ UNCHANGED <<metrics, workout_type, pros, cons, trendVars, pmcVars, netVars, metricVars, adviceVars>>

NextScore == ScoreSwimWorkout

SpecScore == InitScore /\ [][NextScore]_vars

-----------------------------------------------------------------------------
(* Specification SpecClassify: detect_workout_type applied to every bundle  *)
(* of ClassifyBundles.                                                      *)

SpeedLenVals   == {Absent, 0, 49, 50, 51}
ClsCvVals      == {Absent, NaN, 7, 8, 9, 10, 15, 16}
ClsGearVals    == {Absent, 3, 4}
ClsAvgVals     == {Absent, 50, 60, 80, 81}
ClsStopVals    == {Absent, 9, 10, 14, 15, 20, 21}

ClassifyBundles ==
    { Bundle(r) : r \in [speed : SpeedLenVals, speed_cv : ClsCvVals,
                         speed_gear_count : ClsGearVals, speed_avg : ClsAvgVals,
                         stop_percentage : ClsStopVals] }

InitClassify ==
    /\ metrics \in ClassifyBundles
    /\ workout_type = ""
    /\ sub_scores = NoSubScores
    /\ total_score = 0
    /\ grade = ""
    /\ pros = <<>>
    /\ cons = <<>>
    /\ IdleTrend
    /\ IdlePmc
    /\ IdleMetrics
    /\ IdleAdvice
    /\ IdleNet
    /\ pc = "detect"

DetectWorkoutType ==
    /\ pc = "detect"
    /\ workout_type' = detect_workout_type(metrics)
    /\ pc' = "detected"
    /\ UNCHANGED <<metrics, sub_scores, total_score, grade, pros, cons, trendVars, pmcVars, netVars, metricVars, adviceVars>>

NextClassify == DetectWorkoutType

SpecClassify == InitClassify /\ [][NextClassify]_vars

-----------------------------------------------------------------------------
(* Specification SpecProsCons: generate_pros_cons applied to every bundle   *)
(* of ProsConsBundles, every sub-score mapping over SubScoreVals and every  *)
(* workout type.                                                            *)

PcStopVals     == {Absent, 2, 10, 16}
PcDistVals     == {Absent, 1500, 2000}
PcStrokeCvVals == {Absent, NaN, 5, 16}
PcDropVals     == {Absent, 5}
PcSpeedCvVals  == {Absent, 13}
SubScoreVals   == {0, 15, 20}

ProsConsBundles ==
    { Bundle(r) : r \in [stop_percentage : PcStopVals, distance_m : PcDistVals,
                         stroke_rate_cv : PcStrokeCvVals, stroke_rate_drop : PcDropVals,
                         speed_cv : PcSpeedCvVals] }

InitProsCons ==
    /\ metrics \in ProsConsBundles
    /\ workout_type \in WorkoutTypes
    /\ sub_scores \in [SubKeySet -> SubScoreVals]
    /\ total_score = SumSubScores(sub_scores)
    /\ grade = GradeOf(total_score)
    /\ pros = <<>>
    /\ cons = <<>>
    /\ IdleTrend
    /\ IdlePmc
    /\ IdleMetrics
    /\ IdleAdvice
    /\ IdleNet
    /\ pc = "proscons"

GenerateProsCons ==
    /\ pc = "proscons"
    /\ LET r == generate_pros_cons(metrics, sub_scores, workout_type)
       IN  /\ pros' = r.pros
           /\ cons' = r.cons
    /\ pc' = "listed"
    /\ UNCHANGED <<metrics, workout_type, sub_scores, total_score, grade, trendVars, pmcVars, netVars, metricVars, adviceVars>>

NextProsCons == GenerateProsCons

SpecProsCons == InitProsCons /\ [][NextProsCons]_vars

-----------------------------------------------------------------------------
(* Specification SpecTrend: analyze_multiple_workouts applied to every list *)
(* of at most MaxWorkouts tables of WorkoutTables.                          *)

MaxWorkouts == 3

DateVals ==
    { [kind |-> "missing", v |-> 0], [kind |-> "nan_obj", v |-> 0],
      [kind |-> "nan_f64", v |-> 0], [kind |-> "str", v |-> 1], [kind |-> "str", v |-> 2] }

\* a table without signal columns (or without rows): nothing is extracted
BlankBundle == [k \in {} |-> 0]

\* a steady 2000 m swim
GoodBundle ==
    [speed |-> 120, speed_avg |-> 95, speed_cv |-> 4, stop_percentage |-> 2,
     stroke_rate_cv |-> 4, stroke_rate_drop |-> 1, speed_gear_count |-> 4,
     has_speed_gears |-> 1]

\* a broken session: many stops, erratic pace, stroke rate falling late
PoorBundle ==
    [speed |-> 60, speed_avg |-> 50, speed_cv |-> 20, stop_percentage |-> 25,
     stroke_rate_cv |-> 20, stroke_rate_drop |-> 6, speed_gear_count |-> 0,
     has_speed_gears |-> 0]

TableShapes ==
    { [distance |-> Absent, speed |-> Absent, bundle |-> BlankBundle],
      [distance |-> 2000,   speed |-> 95,     bundle |-> GoodBundle],
      [distance |-> 0,      speed |-> 0,      bundle |-> PoorBundle] }

WorkoutTables ==
    { [ok |-> TRUE, date |-> d, distance |-> sh.distance, speed |-> sh.speed,
       bundle |-> sh.bundle] : d \in DateVals, sh \in TableShapes }
    \cup { [ok |-> FALSE, date |-> [kind |-> "missing", v |-> 0], distance |-> Absent,
            speed |-> Absent, bundle |-> BlankBundle] }

InitTrend ==
    /\ workout_dataframes \in UNION { [1..n -> WorkoutTables] : n \in 0..MaxWorkouts }
    /\ result = NoResult
    /\ IdleScorer
    /\ IdlePmc
    /\ IdleMetrics
    /\ IdleAdvice
    /\ IdleNet
    /\ pc = "compare"

AnalyzeMultipleWorkouts ==
    /\ pc = "compare"
    /\ result' = analyze_multiple_workouts(workout_dataframes)
    /\ pc' = "compared"
    /\ UNCHANGED <<workout_dataframes, scorerVars, pmcVars, netVars, metricVars, adviceVars>>

NextTrend == AnalyzeMultipleWorkouts

SpecTrend == InitTrend /\ [][NextTrend]_vars

-----------------------------------------------------------------------------
(* Specification SpecPMC: calculate_pmc for user UserId over every table    *)
(* of at most MaxActivities rows of ActivityRows, every window of 1 to      *)
(* MaxDays days and the sport filters of SportFilters.  The efforts are     *)
(* chosen so that no TSS is an exact tie of the rounding to 2 digits.       *)

Efforts ==
    { \* no heart rate: the sport's default intensity 0.75 -> 1.56
      [sport_type |-> "Swim", type |-> "", moving_time_s |-> 100, elapsed_time_s |-> 120,
       average_heartrate |-> 0, max_heartrate |-> 0],
      \* heart rate 150/180, no moving time: intensity 0.85 -> 1.81
      [sport_type |-> "Run", type |-> "", moving_time_s |-> 0, elapsed_time_s |-> 90,
       average_heartrate |-> 150, max_heartrate |-> 180],
      \* no duration at all -> 0
      [sport_type |-> "Run", type |-> "", moving_time_s |-> 0, elapsed_time_s |-> 0,
       average_heartrate |-> 150, max_heartrate |-> 180],
      \* average above max: intensity clamped to 1.0 -> 1.67
      [sport_type |-> "OpenWaterSwim", type |-> "", moving_time_s |-> 60, elapsed_time_s |-> 60,
       average_heartrate |-> 190, max_heartrate |-> 180],
      \* very low heart rate: intensity clamped to 0.3 -> 1.80
      [sport_type |-> "", type |-> "Ride", moving_time_s |-> 720, elapsed_time_s |-> 720,
       average_heartrate |-> 20, max_heartrate |-> 180],
      \* neither sport_type nor type, no heart rate: 'Unknown', 0.75 -> 1.56
      [sport_type |-> "", type |-> "", moving_time_s |-> 100, elapsed_time_s |-> 0,
       average_heartrate |-> 0, max_heartrate |-> 0] }

Row(u, d, t, e) ==
    [user_id |-> u, start_date |-> [day |-> d, tod |-> t],
     sport_type |-> e.sport_type, type |-> e.type,
     moving_time_s |-> e.moving_time_s, elapsed_time_s |-> e.elapsed_time_s,
     average_heartrate |-> e.average_heartrate, max_heartrate |-> e.max_heartrate]

\* rows of the user at midnight or later on each day, and one row per day of
\* another user
ActivityRows ==
    { Row(UserId, d, t, e) : d \in 0..Today, t \in {0, 1}, e \in Efforts }
    \cup { Row(UserId + 1, d, 1, e) :
             d \in 0..Today, e \in {x \in Efforts : x.sport_type = "Run" /\ x.elapsed_time_s > 0} }

RECURSIVE TablesUpTo(_)
TablesUpTo(n) ==
    IF n = 0 THEN {{}}
    ELSE LET smaller == TablesUpTo(n - 1)
         IN  smaller \cup { t \cup {a} : t \in smaller, a \in ActivityRows }

SportFilters == {"", "swim"}

InitPMC ==
    /\ activities \in TablesUpTo(MaxActivities)
    /\ days \in 1..MaxDays
    /\ sport_filter \in SportFilters
    /\ daily_tss = <<>>
    /\ all_dates = <<>>
    /\ date_idx = 0
    /\ ctl = 0
    /\ atl = 0
    /\ pmc_data = <<>>
    /\ IdleScorer
    /\ IdleTrend
    /\ IdleMetrics
    /\ IdleAdvice
    /\ IdleNet
    /\ pc = "pmc"

\* lines 91-153: the query, the grouping, the date range, the initial loads
PmcFetch ==
    /\ pc = "pmc"
    /\ LET grouped == GroupByDate(FetchActivities(activities, days, sport_filter))
       IN  /\ daily_tss' = grouped
           /\ ctl' = InitialLoad(grouped)
           /\ atl' = InitialLoad(grouped)
    /\ all_dates' = AllDates(days)
    /\ date_idx' = 1
    /\ pmc_data' = <<>>
    /\ pc' = "pmc_loop"
    /\ UNCHANGED <<activities, days, sport_filter, scorerVars, trendVars, netVars, metricVars, adviceVars>>

\* lines 155-182: one iteration of the loop over all_dates
PmcDay ==
    /\ pc = "pmc_loop"
    /\ date_idx <= Len(all_dates)
    /\ LET date == all_dates[date_idx]
           tss == Get(daily_tss, date, 0)
       IN  /\ ctl' = EmaStep(ctl, tss, CtlPeriod)
           /\ atl' = EmaStep(atl, tss, AtlPeriod)
           /\ pmc_data' = Append(pmc_data, PMCPoint(date, tss, ctl', atl'))
    /\ date_idx' = date_idx + 1
    /\ pc' = IF date_idx = Len(all_dates) THEN "pmc_done" ELSE "pmc_loop"
    /\ UNCHANGED <<activities, days, sport_filter, daily_tss, all_dates, scorerVars, trendVars, netVars, metricVars, adviceVars>>

NextPMC == PmcFetch \/ PmcDay

SpecPMC == InitPMC /\ [][NextPMC]_vars

-----------------------------------------------------------------------------
(* Specification SpecMetrics: the metric extractors applied to every table  *)
(* whose signal columns are absent or hold one of the signals below.        *)

\* marker used only while enumerating tables: "no such column"
NoColumn == <<[v |-> Absent, n |-> 0]>>
\* a column without rows
NoRows == <<>>
\* only missing samples
AllMissing == <<[v |-> NaN, n |-> 3]>>
\* only zeros (a device that recorded nothing but stops)
AllZero == <<[v |-> 0, n |-> 12]>>
\* a single valid sample
OneSample == <<[v |-> 10, n |-> 1]>>
\* perfectly even
Even == <<[v |-> 10, n |-> 30]>>
\* 60 samples with one fast block of 25
WithGear == <<[v |-> 10, n |-> 30], [v |-> 13, n |-> 25], [v |-> 9, n |-> 5]>>
\* fading: the last fifth is 6 below the first fifth
Fading == <<[v |-> 12, n |-> 12], [v |-> 10, n |-> 6], [v |-> 6, n |-> 12]>>
\* three near-stops among 20 samples
WithStops == <<[v |-> 12, n |-> 17], [v |-> 1, n |-> 3]>>
\* missing and out-of-range samples around 12 valid ones
Noisy == <<[v |-> NaN, n |-> 2], [v |-> 10, n |-> 6], [v |-> 100, n |-> 2], [v |-> 11, n |-> 6]>>

SpeedSignals == {NoRows, AllMissing, AllZero, OneSample, Even, WithGear, Fading, WithStops}

EnhancedSpeedSignals == {AllZero, WithGear}

CadenceSignals == {NoRows, AllZero, OneSample, Even, Fading, Noisy}

HeartRateSignals == {NoRows, AllMissing, AllZero, OneSample, Even, Fading, Noisy}

RunningCadenceSignals == {Even}

\* the table with the columns of cols that are not NoColumn
Table(cols) ==
    [c \in {c \in DOMAIN cols : cols[c] # NoColumn} |-> Expand(cols[c])]

Tables ==
    { Table([enhanced_speed |-> e, speed |-> s, cadence |-> c, heart_rate |-> h,
             running_cadence |-> r]) :
        e \in EnhancedSpeedSignals \cup {NoColumn}, s \in SpeedSignals \cup {NoColumn},
        c \in CadenceSignals \cup {NoColumn}, h \in HeartRateSignals \cup {NoColumn},
        r \in RunningCadenceSignals \cup {NoColumn} }

\* a table of SpecMetrics has no session_* column
NoSessionColumns ==
    [date |-> [kind |-> "missing", v |-> 0], distance |-> Absent, speed |-> Absent]

InitMetrics ==
    /\ df \in Tables
    /\ swim_metrics = <<>>
    /\ hr_stability = <<>>
    /\ cadence_stability = <<>>
    /\ pace_stability = <<>>
    /\ analysis_metrics = <<>>
    /\ IdleScorer
    /\ IdleTrend
    /\ IdlePmc
    /\ IdleAdvice
    /\ IdleNet
    /\ pc = "extract"

CalculateSwimMetrics ==
    /\ pc = "extract"
    /\ swim_metrics' = calculate_swim_metrics(df)
    /\ pc' = "extracted"
    /\ UNCHANGED <<df, hr_stability, cadence_stability, pace_stability, analysis_metrics>>
    /\ UNCHANGED <<scorerVars, trendVars, pmcVars, netVars, adviceVars>>

CalculateHrStability ==
    /\ pc = "extract"
    /\ hr_stability' = calculate_hr_stability(df)
    /\ pc' = "extracted"
    /\ UNCHANGED <<df, swim_metrics, cadence_stability, pace_stability, analysis_metrics>>
    /\ UNCHANGED <<scorerVars, trendVars, pmcVars, netVars, adviceVars>>

CalculateCadenceStability ==
    /\ pc = "extract"
    /\ cadence_stability' = calculate_cadence_stability(df)
    /\ pc' = "extracted"
    /\ UNCHANGED <<df, swim_metrics, hr_stability, pace_stability, analysis_metrics>>
    /\ UNCHANGED <<scorerVars, trendVars, pmcVars, netVars, adviceVars>>

CalculatePaceStability ==
    /\ pc = "extract"
    /\ pace_stability' = calculate_pace_stability(df)
    /\ pc' = "extracted"
    /\ UNCHANGED <<df, swim_metrics, hr_stability, cadence_stability, analysis_metrics>>
    /\ UNCHANGED <<scorerVars, trendVars, pmcVars, netVars, adviceVars>>

\* analyze_workout up to the 'metrics' entry of its result
AnalyzeWorkout ==
    /\ pc = "extract"
    /\ LET metadata == load_swim_data(NoSessionColumns)
           m == [k \in {"distance_m"} |-> Get(metadata, "distance_m", 0)]
                @@ calculate_swim_metrics(df)
       IN  analysis_metrics' = analyze_workout_metrics(metadata, m)
    /\ pc' = "analysed"
    /\ UNCHANGED <<df, swim_metrics, hr_stability, cadence_stability, pace_stability>>
    /\ UNCHANGED <<scorerVars, trendVars, pmcVars, netVars, adviceVars>>

NextMetrics ==
    \/ CalculateSwimMetrics
    \/ CalculateHrStability
    \/ CalculateCadenceStability
    \/ CalculatePaceStability
    \/ AnalyzeWorkout

SpecMetrics == InitMetrics /\ [][NextMetrics]_vars

-----------------------------------------------------------------------------
(* Specification SpecAdvice: lines 431-439 of analyze_workout (classify,    *)
(* score, verdict, prescription) for every bundle of AdviceBundles.         *)

AdvDistVals == {400, 1000, 1500, 2000}
AdvLenVals == {40, 60}
AdvAvgVals == {50, 70, 90}
AdvSpeedCvVals == {2, 4, 7, 12, 16}
AdvStopVals == {2, 12, 16, 25, 35}
AdvStrokeCvVals == {Absent, 4, 12, 16}
AdvDropVals == {1, 3, 4, 6}
AdvGearVals == {0, 1, 3, 5}

AdviceBundles ==
    { Bundle([distance_m |-> d, speed |-> n, speed_avg |-> a, speed_cv |-> c,
              stop_percentage |-> st, stroke_rate_cv |-> sc,
              stroke_rate_drop |-> IF sc = Absent THEN Absent ELSE dr,
              speed_gear_count |-> IF n > 50 THEN g ELSE Absent,
              has_speed_gears |-> IF n > 50 THEN (IF g > 0 THEN 1 ELSE 0) ELSE Absent]) :
        d \in AdvDistVals, n \in AdvLenVals, a \in AdvAvgVals, c \in AdvSpeedCvVals,
        st \in AdvStopVals, sc \in AdvStrokeCvVals, dr \in AdvDropVals, g \in AdvGearVals }

NoPrescription == [main_set |-> "", key_focus |-> "", drill_set |-> ""]

InitAdvice ==
    /\ metrics \in AdviceBundles
    /\ workout_type = ""
    /\ sub_scores = NoSubScores
    /\ total_score = 0
    /\ grade = ""
    /\ pros = <<>>
    /\ cons = <<>>
    /\ verdict = ""
    /\ prescription = NoPrescription
    /\ IdleTrend
    /\ IdlePmc
    /\ IdleMetrics
    /\ IdleNet
    /\ pc = "classify"

\* lines 431-436: detect_workout_type, then score_swim_workout
ClassifyAndScore ==
    /\ pc = "classify"
    /\ LET wt == detect_workout_type(metrics)
           r == score_swim_workout(metrics, wt)
       IN  /\ workout_type' = wt
           /\ sub_scores' = r.sub_scores
           /\ total_score' = r.total_score
           /\ grade' = r.grade
    /\ pc' = "verdict"
    /\ UNCHANGED <<metrics, pros, cons, adviceVars, trendVars, pmcVars, netVars, metricVars>>

\* line 437
GenerateVerdict ==
    /\ pc = "verdict"
    /\ verdict' = generate_verdict(grade, sub_scores, workout_type, metrics)
    /\ pc' = "prescribe"
    /\ UNCHANGED <<scorerVars, prescription, trendVars, pmcVars, netVars, metricVars>>

\* line 439
PrescribeNextWorkout ==
    /\ pc = "prescribe"
    /\ prescription' = prescribe_next_workout(grade, sub_scores, workout_type, metrics)
    /\ pc' = "prescribed"
    /\ UNCHANGED <<scorerVars, verdict, trendVars, pmcVars, netVars, metricVars>>

NextAdvice == ClassifyAndScore \/ GenerateVerdict \/ PrescribeNextWorkout

SpecAdvice == InitAdvice /\ [][NextAdvice]_vars

-----------------------------------------------------------------------------
(* Specification SpecTrendMath: analyze_multiple_workouts applied to every  *)
(* list of at most MaxSeries analysable tables that carry the same date     *)
(* string (the sort keeps them in the order given) and whose distances and  *)
(* speeds lie within and beyond 5% of each other.                           *)

MaxSeries == 5

SameDay == [kind |-> "str", v |-> 1]

SeriesTables ==
    { [ok |-> TRUE, date |-> SameDay, distance |-> sh.distance, speed |-> sh.speed,
       bundle |-> sh.bundle] :
        sh \in { [distance |-> 0,    speed |-> 0,   bundle |-> PoorBundle],
                 [distance |-> 2000, speed |-> 95,  bundle |-> GoodBundle],
                 [distance |-> 2090, speed |-> 99,  bundle |-> GoodBundle],
                 [distance |-> 2100, speed |-> 100, bundle |-> GoodBundle],
                 [distance |-> 1000, speed |-> 95,  bundle |-> PoorBundle] } }

InitTrendMath ==
    /\ workout_dataframes \in UNION { [1..n -> SeriesTables] : n \in 0..MaxSeries }
    /\ result = NoResult
    /\ IdleScorer
    /\ IdlePmc
    /\ IdleMetrics
    /\ IdleAdvice
    /\ IdleNet
    /\ pc = "compare"

SpecTrendMath == InitTrendMath /\ [][NextTrend]_vars

-----------------------------------------------------------------------------
(* Specification SpecOrder: analyze_multiple_workouts applied to every list *)
(* of at most MaxWorkouts analysable tables with pairwise different date    *)
(* strings, in every order.                                                 *)

DatedTables ==
    { [ok |-> TRUE, date |-> [kind |-> "str", v |-> d], distance |-> sh.distance,
       speed |-> sh.speed, bundle |-> sh.bundle] :
        d \in 1..MaxWorkouts, sh \in TableShapes }

InitOrder ==
    /\ workout_dataframes \in
           { ws \in UNION { [1..n -> DatedTables] : n \in 0..MaxWorkouts } :
               \A i, j \in 1..Len(ws) : i # j => ws[i].date # ws[j].date }
    /\ result = NoResult
    /\ IdleScorer
    /\ IdlePmc
    /\ IdleMetrics
    /\ IdleAdvice
    /\ IdleNet
    /\ pc = "compare"

SpecOrder == InitOrder /\ [][NextTrend]_vars

-----------------------------------------------------------------------------
(* Specification SpecStrengths: analyze_multiple_workouts applied to every  *)
(* list of at most MaxWorkouts analysable tables of the same date string    *)
(* whose sub-scores lie on, above and below the +3 / -3 thresholds of       *)
(* identify_strengths_weaknesses.                                           *)

\* sub-scores 25, 20, 18, 25: mean 22, two categories exactly 3 above it
EdgeBundle ==
    [speed |-> 120, speed_avg |-> 95, speed_cv |-> 4, stop_percentage |-> 15,
     stroke_rate_cv |-> 12, stroke_rate_drop |-> 1, speed_gear_count |-> 5,
     has_speed_gears |-> 1]

\* with 1500 m, sub-scores 21, 20, 18, 25: mean 21, one category exactly 3 below
FewStopsBundle ==
    [speed |-> 120, speed_avg |-> 95, speed_cv |-> 4, stop_percentage |-> 7,
     stroke_rate_cv |-> 12, stroke_rate_drop |-> 1, speed_gear_count |-> 5,
     has_speed_gears |-> 1]

StrengthTables ==
    { [ok |-> TRUE, date |-> SameDay, distance |-> sh.distance, speed |-> sh.speed,
       bundle |-> sh.bundle] :
        sh \in { [distance |-> Absent, speed |-> Absent, bundle |-> BlankBundle],
                 [distance |-> 2000,   speed |-> 95,     bundle |-> GoodBundle],
                 [distance |-> 1000,   speed |-> 95,     bundle |-> PoorBundle],
                 [distance |-> 2000,   speed |-> 95,     bundle |-> EdgeBundle],
                 [distance |-> 1500,   speed |-> 95,     bundle |-> FewStopsBundle] } }

InitStrengths ==
    /\ workout_dataframes \in UNION { [1..n -> StrengthTables] : n \in 0..MaxWorkouts }
    /\ result = NoResult
    /\ IdleScorer
    /\ IdlePmc
    /\ IdleMetrics
    /\ IdleAdvice
    /\ IdleNet
    /\ pc = "compare"

SpecStrengths == InitStrengths /\ [][NextTrend]_vars

-----------------------------------------------------------------------------
(* Specification SpecGears: calculate_swim_metrics followed by              *)
(* detect_workout_type, as in analyze_workout, on tables whose speed        *)
(* columns hold fast blocks of 19, 20 and more samples, in the middle and   *)
(* at the end, in series of 49, 50, 51 and more valid samples.              *)

\* a fast block of 19 samples
Run19 == <<[v |-> 10, n |-> 30], [v |-> 13, n |-> 19], [v |-> 10, n |-> 11]>>
\* a fast block of exactly 20 samples
Run20 == <<[v |-> 10, n |-> 30], [v |-> 13, n |-> 20], [v |-> 10, n |-> 10]>>
\* two fast blocks, one of 21 at the start and one of 20 at the very end
TwoRuns == <<[v |-> 14, n |-> 21], [v |-> 8, n |-> 20], [v |-> 14, n |-> 20]>>
\* fast blocks of 20, 5 and 19 samples
OneOfThree == <<[v |-> 20, n |-> 20], [v |-> 8, n |-> 5], [v |-> 20, n |-> 5],
                [v |-> 8, n |-> 5], [v |-> 20, n |-> 19], [v |-> 8, n |-> 6]>>
\* stops and gaps inside a fast block: the cleaned series has a block of 20
GapsInRun == <<[v |-> 10, n |-> 30], [v |-> 13, n |-> 10], [v |-> 0, n |-> 2],
               [v |-> NaN, n |-> 1], [v |-> 13, n |-> 10], [v |-> 10, n |-> 10]>>
\* 49, 50 and 51 valid samples ending in a fast block of 20
FortyNine == <<[v |-> 10, n |-> 29], [v |-> 13, n |-> 20]>>
Fifty == <<[v |-> 10, n |-> 30], [v |-> 13, n |-> 20]>>
FiftyOne == <<[v |-> 10, n |-> 31], [v |-> 13, n |-> 20]>>
\* 50 valid samples among 53 rows, no fast block
FiftyAmongGaps == <<[v |-> 10, n |-> 25], [v |-> 0, n |-> 3], [v |-> 11, n |-> 25]>>

GearSignals ==
    {Even, WithGear, Run19, Run20, TwoRuns, OneOfThree, GapsInRun, FortyNine, Fifty,
     FiftyOne, FiftyAmongGaps}

GearTables ==
    { Table([enhanced_speed |-> e, speed |-> s, cadence |-> c]) :
        e \in {NoColumn, AllZero, Run20, Fifty}, s \in GearSignals \cup {NoColumn},
        c \in {NoColumn, Even} }

InitGears ==
    /\ df \in GearTables
    /\ swim_metrics = <<>>
    /\ hr_stability = <<>>
    /\ cadence_stability = <<>>
    /\ pace_stability = <<>>
    /\ analysis_metrics = <<>>
    /\ IdleScorer
    /\ IdleTrend
    /\ IdlePmc
    /\ IdleAdvice
    /\ IdleNet
    /\ pc = "extract"

\* workout_type = detect_workout_type(metrics) of analyze_workout
ClassifyExtracted ==
    /\ pc = "extracted"
    /\ workout_type' = detect_workout_type(swim_metrics)
    /\ pc' = "classified"
    /\ UNCHANGED <<metrics, sub_scores, total_score, grade, pros, cons>>
    /\ UNCHANGED <<trendVars, pmcVars, netVars, metricVars, adviceVars>>

NextGears == CalculateSwimMetrics \/ ClassifyExtracted

SpecGears == InitGears /\ [][NextGears]_vars

-----------------------------------------------------------------------------
(* Specification SpecRetry: one call of retry_with_backoff(func,            *)
(* max_retries) with the other arguments at their defaults; func yields any *)
(* of FuncOutcomes at each invocation.  The event loop resumes a coroutine  *)
(* that is ready and every sleep ends: weak fairness of the steps.          *)

MaxRetriesArg == 3

FuncOutcomes ==
    { Response(200), Response(302), Response(404), Response(429), Response(503),
      PlainObject, Raised("HTTPStatusError", 401), Raised("HTTPStatusError", 500),
      Raised("NetworkError", 0), Raised("TimeoutException", 0), Raised("ValueError", 0) }

NoOutcome == [kind |-> "none", status |-> 0]

NotCalled == [kind |-> "none", value |-> NoOutcome]

InitRetry ==
    /\ max_retries \in 0..MaxRetriesArg
    /\ attempt = 0
    /\ backoff = INITIAL_BACKOFF
    /\ last_exception = NoOutcome
    /\ invocations = <<>>
    /\ sleeps = <<>>
    /\ retry_result = NotCalled
    /\ IdleScorer
    /\ IdleTrend
    /\ IdlePmc
    /\ IdleMetrics
    /\ IdleAdvice
    /\ IdleService
    /\ pc = "retry_call"

\* result = await func() and the handling of what it yields, up to the return,
\* the raise or the start of asyncio.sleep(backoff)
RetryInvoke ==
    /\ pc = "retry_call"
    /\ \E o \in FuncOutcomes :
          LET d == RetryDecision(o, attempt, max_retries)
          IN  /\ invocations' = Append(invocations, o)
              /\ CASE d.do = "sleep" ->
                        /\ sleeps' = Append(sleeps, backoff)
                        /\ pc' = "retry_sleep"
                        /\ UNCHANGED <<retry_result, last_exception>>
                   [] d.do = "return" ->
                        /\ retry_result' = [kind |-> "returned", value |-> d.exc]
                        /\ pc' = "retry_done"
                        /\ UNCHANGED <<sleeps, last_exception>>
                   [] d.do = "raise" ->
                        /\ retry_result' = [kind |-> "raised", value |-> d.exc]
                        /\ pc' = "retry_done"
                        /\ UNCHANGED <<sleeps, last_exception>>
    /\ UNCHANGED <<max_retries, attempt, backoff>>
    /\ UNCHANGED <<scorerVars, trendVars, pmcVars, metricVars, adviceVars, serviceVars>>

\* the sleep ends: backoff and last_exception are updated, and "continue"
\* takes the next attempt of the range, or leaves the loop when it is exhausted
RetryWake ==
    /\ pc = "retry_sleep"
    /\ backoff' = NextBackoff(backoff)
    /\ last_exception' = RetryDecision(invocations[Len(invocations)], attempt, max_retries).exc
    /\ attempt' = attempt + 1
    /\ IF attempt + 1 <= max_retries
       THEN pc' = "retry_call" /\ UNCHANGED retry_result
       ELSE /\ retry_result' = [kind |-> "raised", value |-> last_exception']
            /\ pc' = "retry_done"
    /\ UNCHANGED <<max_retries, invocations, sleeps>>
    /\ UNCHANGED <<scorerVars, trendVars, pmcVars, metricVars, adviceVars, serviceVars>>

NextRetry == RetryInvoke \/ RetryWake

SpecRetry == InitRetry /\ [][NextRetry]_vars /\ WF_vars(NextRetry)

-----------------------------------------------------------------------------
(* Specification SpecSync: two sync_activities coroutines (the sync         *)
(* endpoint's and the background job's) on one event loop, sharing the      *)
(* module-level deques of strava_rate_limiter.py.  The deques start as      *)
(* earlier, completed syncs left them: each of those calls was made after a *)
(* check that passed.  The clock stays below WINDOW_DAY, so rate_limit_day  *)
(* holds every request made.                                                *)

Syncs == {"endpoint", "background"}

\* requests recorded at time 0 by earlier syncs
EarlierCalls ==
    {<<>>} \cup {<<[t |-> 0, n |-> n]>> : n \in (RATE_LIMIT_15MIN - 2)..(RATE_LIMIT_15MIN - 1)}

\* what client.get yields
GetOutcomes ==
    { Page(TRUE), Page(FALSE), Response(503), Response(401) }

InitSync ==
    /\ now = 0
    /\ rate_limit_15min \in EarlierCalls
    /\ rate_limit_day = rate_limit_15min
    /\ syncs = [s \in Syncs |-> NotStarted]
    /\ IdleScorer
    /\ IdleTrend
    /\ IdlePmc
    /\ IdleMetrics
    /\ IdleAdvice
    /\ IdleRetry
    /\ IdleJob
    /\ IdleStore
    /\ pc = "serving"

SyncStep(s, next) ==
    /\ syncs' = [syncs EXCEPT ![s] = next.sync]
    /\ rate_limit_15min' = next.d15
    /\ rate_limit_day' = next.dday
    /\ UNCHANGED <<scorerVars, trendVars, pmcVars, metricVars, adviceVars, retryVars, pc>>
    /\ UNCHANGED <<jobVars, storeVars>>

\* sync_activities is called and runs to its first await
SyncStart(s) ==
    /\ syncs[s].at = "start"
    /\ SyncStep(s, BeginSync(syncs[s], rate_limit_15min, rate_limit_day, now, MaxPagesArg))
    /\ UNCHANGED now

\* client.get completes
SyncResponse(s) ==
    /\ syncs[s].at = "get"
    /\ \E o \in GetOutcomes :
          SyncStep(s, AfterGet(syncs[s], o, rate_limit_15min, rate_limit_day, now, MaxPagesArg))
    /\ UNCHANGED now

\* asyncio.sleep(backoff) completes
SyncWake(s) ==
    /\ syncs[s].at = "sleep"
    /\ SyncStep(s, AfterSleep(syncs[s], rate_limit_15min, rate_limit_day, now))
    /\ UNCHANGED now

\* a step of the clock
ClockStep == WINDOW_15MIN \div 2 + 1

\* time passes
Elapse ==
    /\ now < WINDOW_15MIN
    /\ now' = now + ClockStep
    /\ UNCHANGED <<rate_limit_15min, rate_limit_day, syncs>>
    /\ UNCHANGED <<scorerVars, trendVars, pmcVars, metricVars, adviceVars, retryVars, pc>>
    /\ UNCHANGED <<jobVars, storeVars>>

NextSync ==
    \/ \E s \in Syncs : SyncStart(s)
    \/ \E s \in Syncs : SyncResponse(s)
    \/ \E s \in Syncs : SyncWake(s)
    \/ Elapse

SpecSync == InitSync /\ [][NextSync]_vars

-----------------------------------------------------------------------------
(* Specification SpecJob: start() and stop() called in any order on the one *)
(* BackgroundSyncJob, and the run_loop tasks they create, on one event      *)
(* loop.  A task runs from one await to the next without interruption; a    *)
(* task that task.cancel() was called on gets CancelledError at the await   *)
(* it is suspended in, which no "except Exception" of run_loop,             *)
(* sync_all_users, sync_user or retry_with_backoff catches.                 *)

NumUsers == 2
MaxStarts == 2
MaxRounds == 1

\* requests recorded at time 0 by earlier syncs
JobEarlierCalls ==
    {<<>>} \cup {<<[t |-> 0, n |-> n]>> :
                    n \in {RATE_LIMIT_15MIN - SYNC_BATCH_SIZE - 1, RATE_LIMIT_15MIN - SYNC_BATCH_SIZE + 1}}

\* what client.get yields: here Strava answers every request at once with a
\* page or a refusal (the retries of a request are the subject of SpecSync)
JobGetOutcomes == { Page(TRUE), Page(FALSE), Response(401) }

NoCallYet == [op |-> "none", was_running |-> FALSE]

InitJob ==
    /\ now = 0
    /\ rate_limit_15min \in JobEarlierCalls
    /\ rate_limit_day = rate_limit_15min
    /\ running = FALSE
    /\ task = 0
    /\ tasks = <<>>
    /\ rounds_started = 0
    /\ last_round = NoRound
    /\ last_call = NoCallYet
    /\ IdleScorer
    /\ IdleTrend
    /\ IdlePmc
    /\ IdleMetrics
    /\ IdleAdvice
    /\ IdleRetry
    /\ IdleSync
    /\ IdleStore
    /\ pc = "serving"

JobRest == <<scorerVars, trendVars, pmcVars, metricVars, adviceVars, retryVars, syncVars,
             storeVars, pc>>

\* start() is called
JobStart ==
    /\ running \/ Len(tasks) < MaxStarts
    /\ LET r == job_start(running, task, tasks)
       IN  /\ running' = r.running
           /\ task' = r.task
           /\ tasks' = r.tasks
    /\ last_call' = [op |-> "start", was_running |-> running]
    /\ UNCHANGED <<limiterVars, rounds_started, last_round, JobRest>>

\* stop() is called
JobStop ==
    /\ LET r == job_stop(running, task, tasks)
       IN  /\ running' = r.running
           /\ task' = r.task
           /\ tasks' = r.tasks
    /\ last_call' = [op |-> "stop", was_running |-> running]
    /\ UNCHANGED <<limiterVars, rounds_started, last_round, JobRest>>

TaskStep(k, r) ==
    /\ tasks' = [tasks EXCEPT ![k] = r.task]
    /\ rate_limit_15min' = r.d15
    /\ rate_limit_day' = r.dday
    /\ last_round' = IF r.round # NoRound THEN r.round ELSE last_round
    /\ UNCHANGED <<running, task, last_call, JobRest>>

\* the event loop runs a task for the first time, or when its sleep is over
TaskWake(k) ==
    /\ tasks[k].at \in {"created", "interval", "pause", "delay"}
    /\ ~tasks[k].cancel
    /\ IF tasks[k].at \in {"created", "interval"} /\ running
       THEN rounds_started < MaxRounds /\ rounds_started' = rounds_started + 1
       ELSE UNCHANGED rounds_started
    \* asyncio.sleep(SYNC_INTERVAL_MINUTES * 60) takes that long; the other
    \* sleeps (60 s, 10 s) are below the resolution of the clock
    /\ now' = IF tasks[k].at = "interval" THEN now + SYNC_INTERVAL_MINUTES * 60 ELSE now
    /\ TaskStep(k, WakeTask(tasks[k], running, rate_limit_15min, rate_limit_day, now', NumUsers))

\* client.get of the task's sync_activities completes
TaskGet(k) ==
    /\ tasks[k].at = "sync"
    /\ tasks[k].sync.at = "get"
    /\ ~tasks[k].cancel
    /\ \E o \in JobGetOutcomes :
          TaskStep(k, SyncUserStep(tasks[k],
                                   AfterGet(tasks[k].sync, o, rate_limit_15min,
                                            rate_limit_day, now, MaxPagesArg),
                                   running, NumUsers))
    /\ UNCHANGED <<now, rounds_started>>

\* CancelledError is raised in a task that was cancelled: it ends
TaskCancelled(k) ==
    /\ tasks[k].at # "done"
    /\ tasks[k].cancel
    /\ tasks' = [tasks EXCEPT ![k] = TaskDone(@)]
    /\ UNCHANGED <<limiterVars, running, task, rounds_started, last_round, last_call, JobRest>>

NextJob ==
    \/ JobStart
    \/ JobStop
    \/ \E k \in 1..Len(tasks) : TaskWake(k)
    \/ \E k \in 1..Len(tasks) : TaskGet(k)
    \/ \E k \in 1..Len(tasks) : TaskCancelled(k)

SpecJob == InitJob /\ [][NextJob]_vars

-----------------------------------------------------------------------------
(* Specification SpecStore: three requests call get_or_create_user, each in *)
(* a session of its own, for athlete ids and athlete infos of their choice, *)
(* on a users table that starts empty.                                      *)

Callers == {"c1", "c2", "c3"}
AthleteIds == {101, 102}
AthleteInfos == {"", "ann", "bob"}

InitStore ==
    /\ users = {}
    /\ next_user_id = 1
    /\ calls = [c \in Callers |-> NoCall]
    /\ IdleScorer
    /\ IdleTrend
    /\ IdlePmc
    /\ IdleMetrics
    /\ IdleAdvice
    /\ IdleRetry
    /\ IdleLimiter
    /\ IdleSync
    /\ IdleJob
    /\ pc = "serving"

StoreRest == <<scorerVars, trendVars, pmcVars, metricVars, adviceVars, retryVars, limiterVars,
               syncVars, jobVars, pc>>

\* get_or_create_user is called: the first query
GetOrCreateUser(c) ==
    /\ calls[c].at = "idle"
    /\ \E a \in AthleteIds, info \in AthleteInfos :
          calls' = [calls EXCEPT ![c] =
                       FirstQuery([NoCall EXCEPT !.athlete_id = a, !.athlete_info = info], users)]
    /\ UNCHANGED <<users, next_user_id, StoreRest>>

\* db.commit() of the call: of the row it added, or of the info it updated
CommitUser(c) ==
    /\ calls[c].at \in {"adding", "updating"}
    /\ LET r == IF calls[c].at = "adding"
                THEN CommitInsert(calls[c], users, next_user_id)
                ELSE CommitUpdate(calls[c], users)
       IN  /\ calls' = [calls EXCEPT ![c] = r.call]
           /\ users' = r.rows
    /\ next_user_id' = IF calls[c].at = "adding" THEN next_user_id + 1 ELSE next_user_id
    /\ UNCHANGED StoreRest

\* after IntegrityError: db.rollback() and the second query
QueryAfterRollback(c) ==
    /\ calls[c].at = "rolled_back"
    /\ calls' = [calls EXCEPT ![c] = SecondQuery(calls[c], users)]
    /\ UNCHANGED <<users, next_user_id, StoreRest>>

NextStore ==
    \/ \E c \in Callers : GetOrCreateUser(c)
    \/ \E c \in Callers : CommitUser(c)
    \/ \E c \in Callers : QueryAfterRollback(c)

SpecStore == InitStore /\ [][NextStore]_vars

-----------------------------------------------------------------------------
(* Properties of the scorer *)

\* C1: after score_swim_workout, whatever the bundle (keys missing or not) and
\* the workout type, every sub-score is an integer in [0,25], total_score is the
\* sum of the four sub-scores, and the grade is A from 85, B from 70, C from 55,
\* D below.
C1_ScoreRangeSumGrade ==
    pc = "scored" =>
        /\ \A k \in SubKeySet : sub_scores[k] \in 0..25
        /\ total_score = sub_scores["distance_endurance"] + sub_scores["pace_consistency"]
                         + sub_scores["stroke_stability"] + sub_scores["speed_gears"]
        /\ (grade = "A") = (total_score >= 85)
        /\ (grade = "B") = (total_score >= 70 /\ total_score < 85)
        /\ (grade = "C") = (total_score >= 55 /\ total_score < 70)
        /\ (grade = "D") = (total_score < 55)

\* a scored bundle with missing keys whose distance bonus had to be clamped,
\* landing exactly on the A cut point
C1_Witness ==
    /\ pc = "scored"
    /\ "stroke_rate_drop" \notin DOMAIN metrics
    /\ "speed_gear_count" \notin DOMAIN metrics
    /\ Get(metrics, "distance_m", 0) = 2000
    /\ Get(metrics, "stop_percentage", 100) = 2
    /\ total_score = 85
    /\ grade = "A"

\* C2: generate_pros_cons returns exactly 3 pros and exactly 3 cons, whether
\* no rule, some rules or more than three rules fired.
C2_ExactlyThree ==
    pc = "listed" => Len(pros) = 3 /\ Len(cons) = 3

\* five pro rules fired (more than three) and one con rule (fewer than three),
\* and three of each came back
C2_Witness ==
    /\ pc = "listed"
    /\ Len(ProsRules(metrics, sub_scores)) = 5
    /\ Len(ConsRules(metrics, sub_scores, workout_type)) = 1
    /\ Len(pros) = 3
    /\ Len(cons) = 3
    /\ cons[3] = "Room for improvement"

\* four con rules fired (more than three) and three cons came back
C2_WitnessManyCons ==
    /\ pc = "listed"
    /\ Len(ConsRules(metrics, sub_scores, workout_type)) > 3
    /\ Len(cons) = 3

\* no rule fired at all: both lists are three fillers
C2_WitnessFiller ==
    /\ pc = "listed"
    /\ Len(ProsRules(metrics, sub_scores)) = 0
    /\ Len(ConsRules(metrics, sub_scores, workout_type)) = 0
    /\ pros = <<"Good effort", "Good effort", "Good effort">>
    /\ Len(cons) = 3

\* The ordered rule table of the classifier as the claim gives it, over the five
\* measured quantities (absent speed array: 0 samples; absent gear count: 0).
ClaimTable(n, cv, gears, avg, stop) ==
    << [c |-> n < 50,                                        l |-> "Recovery"],
       [c |-> Gt(cv, 15) /\ gears > 3,                       l |-> "Speed"],
       [c |-> Gt(avg, 80) /\ Lt(cv, 10) /\ stop < 10,        l |-> "Threshold"],
       [c |-> stop > 20,                                     l |-> "Technique"],
       [c |-> Lt(cv, 8) /\ stop < 15,                        l |-> "Endurance"],
       [c |-> Lt(avg, 60),                                   l |-> "Recovery"],
       [c |-> TRUE,                                          l |-> "Endurance"] >>

FirstMatch(table) ==
    LET i == CHOOSE i \in 1..Len(table) :
                 table[i].c /\ \A j \in 1..(i - 1) : ~table[j].c
    IN  table[i].l

Measured ==
    /\ "speed_cv" \in DOMAIN metrics
    /\ "speed_avg" \in DOMAIN metrics
    /\ "stop_percentage" \in DOMAIN metrics

\* C3: detect_workout_type returns the label of the first satisfied rule of the
\* seven-rule table, for every combination of sample count, speed CV, gear count,
\* average speed and stop percentage.
C3_FirstRuleWins ==
    pc = "detected" /\ Measured =>
        workout_type = FirstMatch(ClaimTable(Get(metrics, "speed", 0),
                                             metrics["speed_cv"],
                                             Get(metrics, "speed_gear_count", 0),
                                             metrics["speed_avg"],
                                             metrics["stop_percentage"]))

\* rules 3 and 4 are not exclusive of rule 5 and 6: a slow, steady swim with
\* many stops satisfies rules 4 and 6 and is labelled by rule 4
C3_Witness ==
    /\ pc = "detected"
    /\ Measured
    /\ Get(metrics, "speed", 0) >= 50
    /\ metrics["stop_percentage"] = 21
    /\ metrics["speed_avg"] = 50
    /\ workout_type = "Technique"

\* C4: the 2000 m example swim scores 25 / 20 / 25 / 20, total 90, grade A,
\* for every workout type.
C4_Example ==
    ( /\ pc = "scored"
      /\ Get(metrics, "distance_m", Absent) = 2000
      /\ Get(metrics, "stop_percentage", Absent) = 2
      /\ Get(metrics, "speed_cv", Absent) = 4
      /\ Get(metrics, "stroke_rate_cv", Absent) = 4
      /\ Get(metrics, "stroke_rate_drop", Absent) = 1
      /\ Get(metrics, "speed_gear_count", Absent) = 4 )
    => /\ sub_scores["distance_endurance"] = 25
       /\ sub_scores["pace_consistency"] = 20
       /\ sub_scores["stroke_stability"] = 25
       /\ sub_scores["speed_gears"] = 20
       /\ total_score = 90
       /\ grade = "A"

\* the example swim scored as a non-Endurance workout
C4_Witness ==
    /\ pc = "scored"
    /\ Get(metrics, "distance_m", Absent) = 2000
    /\ Get(metrics, "stop_percentage", Absent) = 2
    /\ Get(metrics, "speed_cv", Absent) = 4
    /\ Get(metrics, "stroke_rate_cv", Absent) = 4
    /\ Get(metrics, "stroke_rate_drop", Absent) = 1
    /\ Get(metrics, "speed_gear_count", Absent) = 4
    /\ workout_type = "Recovery"
    /\ total_score = 90

-----------------------------------------------------------------------------
(* Properties of the comparison engine *)

\* the tables of the call that analyze_workout does not raise on
Analysable == {i \in 1..Len(workout_dataframes) : workout_dataframes[i].ok}

\* C5: with exactly one workout to compare the engine returns an empty trends
\* mapping and no insights; with no workout table at all it returns the error
\* result "No workouts provided" and does not raise.
C5_SingleAndNone ==
    pc = "compared" =>
        /\ Len(workout_dataframes) = 0 =>
               result = [status |-> "error", error |-> "No workouts provided"]
        /\ Cardinality(Analysable) = 1 =>
               /\ result.status = "ok"
               /\ Len(result.workouts) = 1
               /\ DOMAIN result.trends = {}
               /\ result.insights = <<>>

\* one table, analysed, came back with empty trends
C5_Witness ==
    /\ pc = "compared"
    /\ Len(workout_dataframes) = 1
    /\ workout_dataframes[1].ok
    /\ workout_dataframes[1].bundle = GoodBundle
    /\ result.status = "ok"
    /\ result.workouts[1].total_score = 90
    /\ DOMAIN result.trends = {}

\* the empty list came back as the error result
C5_WitnessNone ==
    /\ pc = "compared"
    /\ Len(workout_dataframes) = 0
    /\ result.status = "error"

\* two or more workouts do produce trends and insights
C5_WitnessTrends ==
    /\ pc = "compared"
    /\ result.status = "ok"
    /\ Len(result.workouts) = 2
    /\ result.trends["score"].trend = "up"
    /\ Len(result.insights) >= 2

\* C6 (as claimed): analyze_multiple_workouts never raises, whatever the tables
\* are: empty, without signal columns, with zero distances, with a session date
\* missing or not-a-number next to workouts that carry a date string.
C6_NeverRaises ==
    pc = "compared" => result.status # "raised"

-----------------------------------------------------------------------------
(* Properties of the training-load model *)

InPmcLoop == pc \in {"pmc_loop", "pmc_done"}

\* C7: CTL and ATL are exactly 0 on every day before the first day with
\* nonzero TSS: as long as every day processed so far had TSS 0 both loads
\* are 0, and each such day's point has ctl = atl = tsb = 0; so a window
\* without activity gives tss = ctl = atl = tsb = 0 on every point.
C7_DormantUntilFirstLoad ==
    /\ (InPmcLoop /\ \A j \in 1..Len(pmc_data) : pmc_data[j].tss = 0) =>
           ctl = 0 /\ atl = 0
    /\ \A i \in 1..Len(pmc_data) :
           (\A j \in 1..i : pmc_data[j].tss = 0) =>
               pmc_data[i].ctl = 0 /\ pmc_data[i].atl = 0 /\ pmc_data[i].tsb = 0

\* two dormant days, then the first day with load
C7_Witness ==
    /\ pc = "pmc_done"
    /\ Len(pmc_data) >= 3
    /\ pmc_data[1].tss = 0 /\ pmc_data[1].ctl = 0
    /\ pmc_data[2].tss = 0 /\ pmc_data[2].atl = 0
    /\ pmc_data[3].tss > 0 /\ pmc_data[3].ctl > 0

\* a window in which the user has rows, none of them with any load
C7_WitnessAllZero ==
    /\ pc = "pmc_done"
    /\ DOMAIN daily_tss # {}
    /\ \A i \in 1..Len(pmc_data) : pmc_data[i].tss = 0 /\ pmc_data[i].tsb = 0

\* clamp(avg_hr / max_hr * 0.9 + 0.1, 0.3, 1.0) as a fraction <<n, d>>
HeartRateIF(avg_hr, max_hr) ==
    LET n == 9 * avg_hr + max_hr
        d == 10 * max_hr
    IN  IF 10 * n < 3 * d THEN <<3, 10>>
        ELSE IF n > d THEN <<1, 1>>
        ELSE <<n \div Gcd(n, d), d \div Gcd(n, d)>>

\* duration_hours * IF^2 * 100 in 1/100 point, at the 2 digits a point carries
ClosedFormTss(a) ==
    LET f == HeartRateIF(a.average_heartrate, a.max_heartrate)
    IN  RoundHalfEven(Duration(a) * f[1] * f[1] * 25, 9 * f[2] * f[2])

\* the only row of the table: an activity of the user with a duration and
\* both heart rates, on a day of the window
SingleHeartRateActivity(a) ==
    /\ activities = {a}
    /\ sport_filter = ""
    /\ a.user_id = UserId
    /\ Duration(a) > 0
    /\ a.average_heartrate > 0 /\ a.max_heartrate > 0
    /\ a.start_date.day \in (Today - days)..Today

InitialisedBy(a) ==
    \E i \in 1..Len(pmc_data) :
        /\ pmc_data[i].date = a.start_date.day
        /\ pmc_data[i].tss = ClosedFormTss(a)
        /\ pmc_data[i].ctl = pmc_data[i].tss
        /\ pmc_data[i].atl = pmc_data[i].tss
        /\ pmc_data[i].tsb = 0

\* C8 (as claimed): for a single activity with known duration and average/max
\* heart rate on a day D of the window, the point of D has
\* tss = duration_hours * IF^2 * 100 and ctl = atl = tss, tsb = 0.
C8_SingleActivityInitialises ==
    pc = "pmc_done" =>
        \A a \in activities : SingleHeartRateActivity(a) => InitialisedBy(a)

\* C8, away from the bound of the query: the same holds for every activity
\* that starts before today, or today at 00:00:00
C8_HoldsUpToMidnight ==
    pc = "pmc_done" =>
        \A a \in activities :
            (SingleHeartRateActivity(a) /\ TimestampLe(a.start_date, Today)) =>
                InitialisedBy(a)

C8_WitnessUpToMidnight ==
    /\ pc = "pmc_done"
    /\ \E a \in activities :
          /\ SingleHeartRateActivity(a)
          /\ a.start_date.day < Today
          /\ a.average_heartrate < a.max_heartrate
          /\ InitialisedBy(a)

\* C9: once initialised, CTL and ATL are updated on every later day of the
\* window by ema + (tss - ema) / period (42 and 7), zero-TSS days included;
\* on a zero-TSS day each strictly decreases and stays positive, so that an
\* initialised load never returns to 0 and is never set to a day's TSS again.
C9_EmaThreaded ==
    [][ pc = "pmc_loop" =>
            LET tss == Get(daily_tss, all_dates[date_idx], 0)
            IN  /\ ctl > 0 =>
                       /\ CtlPeriod * (ctl' - ctl) = tss * Scale - ctl
                       /\ ctl' > 0
                       /\ tss = 0 => ctl' < ctl
                /\ atl > 0 =>
                       /\ AtlPeriod * (atl' - atl) = tss * Scale - atl
                       /\ atl' > 0
                       /\ tss = 0 => atl' < atl ]_vars

\* a day with load, a rest day on which both loads decay (ATL faster), and
\* another day with load on which CTL is not set to the day's TSS
C9_Witness ==
    /\ Len(pmc_data) >= 3
    /\ pmc_data[1].tss > 0
    /\ pmc_data[2].tss = 0
    /\ 0 < pmc_data[2].atl /\ pmc_data[2].atl < pmc_data[2].ctl
    /\ pmc_data[2].ctl < pmc_data[1].ctl
    /\ pmc_data[3].tss > 0
    /\ pmc_data[3].ctl # pmc_data[3].tss

\* the user's activities (of the requested sport) that start on day d
ActivitiesOn(d) ==
    { a \in activities : /\ a.user_id = UserId
                         /\ SportMatches(a, sport_filter)
                         /\ a.start_date.day = d }

\* C10 (as claimed): one PMCPoint for each calendar day from today - days to
\* today, ascending, and the tss of each point is the sum of the TSS of the
\* user's activities that start on that day, today included.
C10_OnePointPerDay ==
    pc = "pmc_done" =>
        /\ Len(pmc_data) = days + 1
        /\ \A i \in 1..Len(pmc_data) :
               /\ pmc_data[i].date = Today - days + i - 1
               /\ pmc_data[i].tss = SumTss(ActivitiesOn(pmc_data[i].date))

\* C10, away from the bound of the query: the dates are right, and the sums
\* are right on every day before today
C10_HoldsBeforeToday ==
    pc = "pmc_done" =>
        /\ Len(pmc_data) = days + 1
        /\ \A i \in 1..Len(pmc_data) :
               /\ pmc_data[i].date = Today - days + i - 1
               /\ pmc_data[i].date < Today =>
                      pmc_data[i].tss = SumTss(ActivitiesOn(pmc_data[i].date))

\* two activities of the user summed on a day before today
C10_WitnessBeforeToday ==
    /\ pc = "pmc_done"
    /\ \E i \in 1..Len(pmc_data) :
          /\ pmc_data[i].date < Today
          /\ Cardinality(ActivitiesOn(pmc_data[i].date)) = 2
          /\ pmc_data[i].tss > 300

-----------------------------------------------------------------------------
(* Properties of the metric extractors *)

\* the samples a stability function works on: the column after dropna()
HeartRateData == IF "heart_rate" \in DOMAIN df THEN DropNa(df["heart_rate"]) ELSE <<>>

CadenceData ==
    IF "cadence" \in DOMAIN df THEN DropNa(df["cadence"])
    ELSE IF "running_cadence" \in DOMAIN df THEN DropNa(df["running_cadence"])
    ELSE <<>>

\* a coefficient of variation that was computed is 100 when its signal has no
\* samples or a mean <= 0
HundredWithoutSignal ==
    /\ ("speed_cv" \in DOMAIN swim_metrics /\ swim_metrics["speed"] = 0) =>
           swim_metrics["speed_cv"] = 100
    /\ ("stroke_rate_cv" \in DOMAIN swim_metrics /\ swim_metrics["stroke_rate"] = 0) =>
           swim_metrics["stroke_rate_cv"] = 100
    /\ ("cv" \in DOMAIN hr_stability /\ SumSeq(HeartRateData) <= 0) =>
           hr_stability["cv"] = 100
    /\ ("cv" \in DOMAIN cadence_stability /\ SumSeq(CadenceData) <= 0) =>
           cadence_stability["cv"] = 100

\* C11 (as claimed): every coefficient of variation the extractors compute is
\* >= 0, and it is 100 whenever the signal has no samples or a mean <= 0.
C11_CvNonNegative ==
    /\ \A k \in {"speed_cv", "stroke_rate_cv"} \cap DOMAIN swim_metrics :
           Ge(swim_metrics[k], 0)
    /\ "cv" \in DOMAIN hr_stability => Ge(hr_stability["cv"], 0)
    /\ "cv" \in DOMAIN cadence_stability => Ge(cadence_stability["cv"], 0)
    /\ HundredWithoutSignal

\* C11, away from single-sample signals: the same holds whenever no cleaned
\* swim signal consists of exactly one sample
C11_HoldsFromTwoSamples ==
    /\ \A k \in {"speed", "stroke_rate"} \cap DOMAIN swim_metrics :
           (swim_metrics[k] # 1 /\ (k \o "_cv") \in DOMAIN swim_metrics) =>
               Ge(swim_metrics[k \o "_cv"], 0)
    /\ "cv" \in DOMAIN hr_stability => Ge(hr_stability["cv"], 0)
    /\ "cv" \in DOMAIN cadence_stability => Ge(cadence_stability["cv"], 0)
    /\ HundredWithoutSignal

\* all four kinds of value occur: 0 for an even signal, a positive one, 100 for
\* a speed column without a positive sample and for a heart rate of zeros
C11_WitnessValues ==
    \/ /\ pc = "extracted"
       /\ "speed_cv" \in DOMAIN swim_metrics
       /\ swim_metrics["speed"] = 0 /\ swim_metrics["speed_cv"] = 100
       /\ "stroke_rate_cv" \in DOMAIN swim_metrics /\ swim_metrics["stroke_rate_cv"] > 0
    \/ /\ pc = "extracted"
       /\ "cv" \in DOMAIN hr_stability
       /\ Len(HeartRateData) >= 10 /\ SumSeq(HeartRateData) = 0

-----------------------------------------------------------------------------
(* Properties of the verdict and the prescription *)

\* the limiting category: the smallest sub-score, the key declared first
\* winning a tie
Limiting(s, k) ==
    \E i \in 1..Len(SubKeys) :
        /\ SubKeys[i] = k
        /\ \A j \in 1..(i - 1) : s[SubKeys[j]] > s[k]
        /\ \A j \in (i + 1)..Len(SubKeys) : s[SubKeys[j]] >= s[k]

\* other arguments a second call may have: any workout type, any presence
\* and value of has_speed_gears, any grade, the limiting score lowered to 0
OtherMetrics == {metrics, <<>>, [has_speed_gears |-> 1], [has_speed_gears |-> 0]}

OtherSubScores ==
    {sub_scores} \cup { [sub_scores EXCEPT ![k] = 0] : k \in {k \in SubKeySet : Limiting(sub_scores, k)} }

Grades == {"A", "B", "C", "D"}

\* C12 (as claimed): the prescription is chosen from the argmin sub-score
\* alone: any second call whose sub-scores have the same argmin category
\* returns the same main_set, key_focus and drill_set, whatever its workout
\* type, grade and other metrics are.
C12_ByArgMinAlone ==
    pc = "prescribed" =>
        \A g2 \in Grades, s2 \in OtherSubScores, wt2 \in WorkoutTypes, m2 \in OtherMetrics :
            prescribe_next_workout(g2, s2, wt2, m2) = prescription

EnduranceWithoutGears(wt, m) == wt = "Endurance" /\ Get(m, "has_speed_gears", 0) = 0

\* C12, away from Endurance workouts without speed gears: between calls that
\* are not of that kind the argmin category alone decides
C12_HoldsOutsideEndurance ==
    (pc = "prescribed" /\ ~EnduranceWithoutGears(workout_type, metrics)) =>
        \A g2 \in Grades, s2 \in OtherSubScores, wt2 \in WorkoutTypes, m2 \in OtherMetrics :
            ~EnduranceWithoutGears(wt2, m2) =>
                prescribe_next_workout(g2, s2, wt2, m2) = prescription

C12_WitnessOutsideEndurance ==
    /\ pc = "prescribed"
    /\ workout_type = "Endurance"
    /\ metrics["has_speed_gears"] = 1
    /\ Limiting(sub_scores, "pace_consistency")
    /\ prescription = PacingPlan

AllEqual(s) == \A j, k \in SubKeySet : s[j] = s[k]

\* C13 (as claimed): when all four sub-scores are equal the prescription is
\* the grade-dependent default: key_focus 'Threshold development' for grade A
\* or B, 'Aerobic base' for grade C or D.
C13_DefaultWhenNoneLimiting ==
    (pc = "prescribed" /\ AllEqual(sub_scores)) =>
        prescription.key_focus = IF grade \in {"A", "B"} THEN "Threshold development"
                                 ELSE "Aerobic base"

\* C13: what the code returns for equal sub-scores
C13_EqualScoresGetFirstCategory ==
    (pc = "prescribed" /\ AllEqual(sub_scores)) =>
        prescription \in {DistancePlan, SpeedGearPlan}

C13_WitnessEqualScores ==
    /\ pc = "prescribed"
    /\ AllEqual(sub_scores)
    /\ grade = "B"
    /\ prescription = DistancePlan

\* C14: for grade B the verdict is determined by the argmin sub-score, the
\* key declared first winning a tie: speed_gears -> 'speed gear missing',
\* pace_consistency -> 'pacing needs more consistency', stroke_stability ->
\* 'stroke rate stability needs work', distance_endurance -> 'Good session
\* with clear improvement areas'; for grade A the verdict is one fixed text.
C14_VerdictByArgMin ==
    pc \in {"prescribe", "prescribed"} =>
        /\ grade = "A" =>
               verdict = "Strong execution across all metrics - excellent session"
        /\ grade = "B" =>
               /\ Limiting(sub_scores, "speed_gears") =>
                      verdict = "Strong aerobic base, speed gear missing"
               /\ Limiting(sub_scores, "pace_consistency") =>
                      verdict = "Good effort, pacing needs more consistency"
               /\ Limiting(sub_scores, "stroke_stability") =>
                      verdict = "Solid swim, stroke rate stability needs work"
               /\ Limiting(sub_scores, "distance_endurance") =>
                      verdict = "Good session with clear improvement areas"

\* grade B, pace_consistency and speed_gears tied for the minimum
C14_Witness ==
    /\ pc = "prescribed"
    /\ grade = "B"
    /\ sub_scores["pace_consistency"] = sub_scores["speed_gears"]
    /\ sub_scores["pace_consistency"] < sub_scores["distance_endurance"]
    /\ sub_scores["pace_consistency"] < sub_scores["stroke_stability"]
    /\ verdict = "Good effort, pacing needs more consistency"

\* grade B with all four sub-scores equal, and grade A
C14_WitnessFirstKey ==
    /\ pc = "prescribed"
    /\ grade = "B"
    /\ AllEqual(sub_scores)
    /\ verdict = "Good session with clear improvement areas"

C14_WitnessGradeA ==
    /\ pc = "prescribed"
    /\ grade = "A"
    /\ sub_scores["speed_gears"] < sub_scores["pace_consistency"]

-----------------------------------------------------------------------------
(* Properties of the scorer's defaults *)

\* the metrics score_swim_workout reads with a default, and values a
\* measurement can give them
MeasuredVals(k) ==
    CASE k = "distance_m" -> DistanceVals \ {Absent}
      [] k = "stop_percentage" -> StopPctVals \ {Absent}
      [] k = "speed_cv" -> SpeedCvVals \ {Absent, NaN}
      [] k = "stroke_rate_cv" -> (StrokeCvVals \ {Absent, NaN}) \cup {15, 20}
      [] k = "stroke_rate_drop" -> StrokeDropVals \ {Absent}
      [] k = "speed_gear_count" -> GearVals \ {Absent}

\* no sub-score of the workout is higher than it is with metric k measured as v
NotHigherThanWith(k, v) ==
    LET measured == [x \in DOMAIN metrics \cup {k} |-> IF x = k THEN v ELSE metrics[x]]
        alt == score_swim_workout(measured, workout_type).sub_scores
    IN  \A c \in SubKeySet : sub_scores[c] <= alt[c]

AbsentIsLeastFavourable(keys) ==
    \A k \in keys \ DOMAIN metrics : \A v \in MeasuredVals(k) : NotHigherThanWith(k, v)

\* C15 (as claimed): every absent metric is scored as its least favourable
\* value; in particular without stroke-rate data (stroke_rate_cv and
\* stroke_rate_drop absent) no late-drop bonus is added, so stroke_stability
\* is not higher than with a measured stroke_rate_cv >= 15 and a measured
\* stroke_rate_drop of 4 or more.
C15_AbsentScoredConservatively ==
    pc = "scored" =>
        /\ AbsentIsLeastFavourable({"distance_m", "stop_percentage", "speed_cv",
                                    "stroke_rate_cv", "stroke_rate_drop", "speed_gear_count"})
        /\ DOMAIN metrics \cap {"stroke_rate_cv", "stroke_rate_drop"} = {} =>
               \A cv \in {15, 20}, drop \in {4, 5, 6} :
                   sub_scores["stroke_stability"]
                       <= StrokeScore([stroke_rate_cv |-> cv, stroke_rate_drop |-> drop])

\* C15, away from stroke_rate_drop: every other absent metric is scored as
\* its least favourable value
C15_HoldsExceptDrop ==
    pc = "scored" =>
        AbsentIsLeastFavourable({"distance_m", "stop_percentage", "speed_cv",
                                 "stroke_rate_cv", "speed_gear_count"})

C15_WitnessExceptDrop ==
    /\ pc = "scored"
    /\ DOMAIN metrics = {"stroke_rate_drop", "has_speed_gears"}
    /\ metrics["stroke_rate_drop"] = 4
    /\ total_score = 15

-----------------------------------------------------------------------------
(* Properties of the bundle's keys *)

SpeedDerived == {"speed_cv", "stop_percentage", "speed_gear_count"}

StrokeDerived == {"stroke_rate_cv", "stroke_rate_drop"}

\* the metrics derived from a column the table does not have are not keys of m
DerivedAbsent(m) ==
    /\ DOMAIN df \cap {"speed", "enhanced_speed"} = {} => DOMAIN m \cap SpeedDerived = {}
    /\ "cadence" \notin DOMAIN df => DOMAIN m \cap StrokeDerived = {}

\* C16 (as claimed): when the speed (or enhanced_speed) or the cadence column
\* is missing from the table, every metric derived from it is absent, not
\* zero, in the bundle of calculate_swim_metrics and in the metrics entry of
\* the result of analyze_workout.
C16_MissingColumnMeansAbsent ==
    /\ pc = "extracted" => DerivedAbsent(swim_metrics)
    /\ pc = "analysed" => DerivedAbsent(analysis_metrics)

\* C16, for the bundle alone
C16_HoldsInBundle ==
    pc = "extracted" => DerivedAbsent(swim_metrics)

\* a table with cadence but without any speed column: stroke metrics present,
\* speed metrics absent
C16_WitnessInBundle ==
    /\ pc = "extracted"
    /\ DOMAIN df \cap {"speed", "enhanced_speed"} = {}
    /\ "stroke_rate_drop" \in DOMAIN swim_metrics
    /\ swim_metrics["stroke_rate_cv"] > 0
    /\ "speed_cv" \notin DOMAIN swim_metrics

-----------------------------------------------------------------------------
(* Properties of the trend records *)

\* the series a trend key is computed from
SeriesOf(ws, key) ==
    CASE key = "distance" -> Distances(ws)
      [] key = "speed" -> Speeds(ws)
      [] key = "score" -> Scores(ws)
      [] OTHER -> SubSeries(ws, CHOOSE k \in SubKeySet : SubTrendKey(k) = key)

FirstHalf(xs) == SubSeq(xs, 1, Len(xs) \div 2)

SecondHalf(xs) == SubSeq(xs, Len(xs) \div 2 + 1, Len(xs))

\* mean(ys) > mean(xs), for non-empty lists
MeanHigher(ys, xs) == SumSeq(ys) * Len(xs) > SumSeq(xs) * Len(ys)

\* |mean(ys) - mean(xs)| / mean(xs) < 0.05; a quotient by a zero mean is
\* infinite or not a number, hence not below 0.05
WithinFivePercent(ys, xs) ==
    /\ SumSeq(xs) > 0
    /\ 20 * Abs(SumSeq(ys) * Len(xs) - SumSeq(xs) * Len(ys)) < SumSeq(xs) * Len(ys)

\* C17: every tracked series of length n >= 2 is split into its first
\* floor(n/2) elements and the rest; trend is 'stable' if
\* |second_mean - first_mean| / first_mean < 0.05, otherwise 'up' if
\* second_mean > first_mean and 'down' if not; direction is 'improving' if
\* second_mean > first_mean and 'declining' if not (equal halves included).
C17_HalvesAndLabels ==
    (pc = "compared" /\ result.status = "ok" /\ Len(result.workouts) >= 2) =>
        /\ DOMAIN result.trends =
               {"distance", "speed", "score"} \cup {SubTrendKey(k) : k \in SubKeySet}
        /\ \A key \in DOMAIN result.trends :
               LET xs == SeriesOf(result.workouts, key)
                   first == FirstHalf(xs)
                   second == SecondHalf(xs)
                   t == result.trends[key]
               IN  /\ Len(second) - Len(first) \in {0, 1}
                   /\ t.trend = IF WithinFivePercent(second, first) THEN "stable"
                                ELSE IF MeanHigher(second, first) THEN "up"
                                ELSE "down"
                   /\ t.direction = IF MeanHigher(second, first) THEN "improving"
                                    ELSE "declining"

\* five workouts: the halves are 2 and 3 long, the distances rise by 4.5%
\* (stable, yet improving) and the scores are equal (stable and declining)
C17_Witness ==
    /\ pc = "compared"
    /\ result.status = "ok"
    /\ Len(result.workouts) = 5
    /\ \A i \in 1..2 : result.workouts[i].distance_m = 2000
    /\ \A i \in 3..5 : result.workouts[i].distance_m = 2090
    /\ result.trends["distance"].trend = "stable"
    /\ result.trends["distance"].direction = "improving"
    /\ result.trends["score"].trend = "stable"
    /\ result.trends["score"].direction = "declining"

\* exactly 5% more is not stable; three workouts split 1 + 2
C17_WitnessEdge ==
    /\ pc = "compared"
    /\ result.status = "ok"
    /\ Len(result.workouts) = 3
    /\ result.workouts[1].distance_m = 2000
    /\ result.workouts[2].distance_m = 2100
    /\ result.workouts[3].distance_m = 2100
    /\ result.trends["distance"].trend = "up"

\* a first half of zeros
C17_WitnessZeroFirstHalf ==
    /\ pc = "compared"
    /\ result.status = "ok"
    /\ Len(result.workouts) = 2
    /\ result.workouts[1].distance_m = 0
    /\ result.workouts[2].distance_m = 0
    /\ result.trends["distance"].trend = "down"

-----------------------------------------------------------------------------
(* Properties of the ordering *)

\* the orders a list of n tables can be given in
OrdersOf(n) == { q \in [1..n -> 1..n] : \A i, j \in 1..n : i # j => q[i] # q[j] }

Permuted(ws, q) == [i \in 1..Len(ws) |-> ws[q[i]]]

DistinctDates ==
    /\ \A i \in 1..Len(workout_dataframes) : workout_dataframes[i].date.kind = "str"
    /\ \A i, j \in 1..Len(workout_dataframes) :
           i # j => workout_dataframes[i].date # workout_dataframes[j].date

-----------------------------------------------------------------------------
(* Properties of identify_strengths_weaknesses and                          *)
(* generate_training_recommendations                                        *)

\* sum of the category k over the analysed workouts
CategorySum(k) == SumSeq(SubSeries(result.workouts, k))

AllCategoriesSum ==
    CategorySum("distance_endurance") + CategorySum("pace_consistency")
    + CategorySum("stroke_stability") + CategorySum("speed_gears")

\* mean of category k >= mean of the four category means + 3
AtLeastThreeAbove(k) ==
    4 * CategorySum(k) >= AllCategoriesSum + 12 * Len(result.workouts)

\* mean of category k <= mean of the four category means - 3
AtLeastThreeBelow(k) ==
    4 * CategorySum(k) <= AllCategoriesSum - 12 * Len(result.workouts)

AreasOf(records) == {records[i].area : i \in 1..Len(records)}

\* the lists are what the claim says they are
ListsByThreshold ==
    LET sw == result.strengths_weaknesses
    IN  /\ \A k \in SubKeySet :
               /\ AreaName(k) \in AreasOf(sw.strengths) <=> AtLeastThreeAbove(k)
               /\ AreaName(k) \in AreasOf(sw.weaknesses) <=> AtLeastThreeBelow(k)
        /\ AreasOf(sw.strengths) \cap AreasOf(sw.weaknesses) = {}
        /\ \A i \in 1..Len(sw.strengths) :
               \E k \in SubKeySet :
                   /\ sw.strengths[i].area = AreaName(k)
                   /\ sw.strengths[i].score = [num |-> CategorySum(k), den |-> Len(result.workouts)]
        /\ \A i \in 1..Len(sw.weaknesses) :
               \E k \in SubKeySet :
                   /\ sw.weaknesses[i].area = AreaName(k)
                   /\ sw.weaknesses[i].score = [num |-> CategorySum(k), den |-> Len(result.workouts)]

\* C19 (as claimed): for every non-empty list of analysed workouts a category
\* is listed as a strength exactly when its mean over the workouts is at least
\* the mean of the four category means plus 3, as a weakness exactly when it is
\* at most that mean minus 3, and no category is in both lists.
C19_ListsByThreshold ==
    (pc = "compared" /\ result.status = "ok" /\ Len(result.workouts) >= 1) =>
        ListsByThreshold

\* every category mean is a multiple of 1/4: the float64 means, their mean and
\* the two thresholds are then the exact numbers
MeansExactInBinary ==
    \A k \in SubKeySet : (4 * CategorySum(k)) % Len(result.workouts) = 0

\* C19, from two workouts on and where the float64 means are exact: there the
\* lists follow the two thresholds, the thresholds themselves included.
C19_HoldsFromTwoWorkouts ==
    (pc = "compared" /\ result.status = "ok" /\ Len(result.workouts) >= 2
     /\ MeansExactInBinary) =>
        ListsByThreshold

\* two workouts with two categories exactly 3 above the mean of the means, both
\* listed as strengths
C19_WitnessFromTwoWorkouts ==
    /\ pc = "compared" /\ result.status = "ok" /\ Len(result.workouts) = 2
    /\ MeansExactInBinary
    /\ \E k \in SubKeySet :
           /\ 4 * CategorySum(k) = AllCategoriesSum + 12 * Len(result.workouts)
           /\ AreaName(k) \in AreasOf(result.strengths_weaknesses.strengths)
    /\ Len(result.strengths_weaknesses.strengths) = 2

\* two workouts without a strength and without a weakness
C19_WitnessEmptyLists ==
    /\ pc = "compared" /\ result.status = "ok" /\ Len(result.workouts) = 2
    /\ result.strengths_weaknesses.strengths = <<>>
    /\ result.strengths_weaknesses.weaknesses = <<>>

\* a category exactly 3 below the mean of the means, listed as a weakness
C19_WitnessExactlyBelow ==
    /\ pc = "compared" /\ result.status = "ok" /\ Len(result.workouts) = 2
    /\ \E k \in SubKeySet :
           /\ 4 * CategorySum(k) = AllCategoriesSum - 12 * Len(result.workouts)
           /\ AreaName(k) \in AreasOf(result.strengths_weaknesses.weaknesses)

\* the focus of the four "address the weakest area" records
WeakestAreaFocus(k) ==
    CASE k = "distance_endurance" -> "Build Aerobic Base"
      [] k = "pace_consistency"   -> "Pacing Control"
      [] k = "stroke_stability"   -> "Technique & Stroke Rate"
      [] k = "speed_gears"        -> "Speed Development"

HasWeakestAreaRecord(recs) ==
    \E i \in 1..Len(recs) : \E k \in SubKeySet : recs[i].focus = WeakestAreaFocus(k)

\* the listed weakness of least mean, the first in declaration order among equals
WeakestCategory(weaknesses) ==
    CHOOSE k \in SubKeySet :
        \E i \in 1..Len(weaknesses) :
            /\ weaknesses[i].area = AreaName(k)
            /\ \A j \in 1..Len(weaknesses) :
                   /\ ~FractionLess(weaknesses[j].score, weaknesses[i].score)
                   /\ j < i => FractionLess(weaknesses[i].score, weaknesses[j].score)

\* C20: generate_training_recommendations returns at most 3 records, and the
\* "address the weakest area" record is among them exactly when
\* identify_strengths_weaknesses listed at least one weakness; it is then the
\* first record and is the one of the weakness of least mean.
C20_AtMostThreeWeakestIffWeakness ==
    (pc = "compared" /\ result.status = "ok") =>
        LET recs == result.recommendations
            weaknesses == result.strengths_weaknesses.weaknesses
        IN  /\ Len(recs) <= 3
            /\ HasWeakestAreaRecord(recs) <=> weaknesses # <<>>
            /\ weaknesses # <<>> =>
                   /\ recs[1].focus = WeakestAreaFocus(WeakestCategory(weaknesses))
                   /\ ~HasWeakestAreaRecord(Tail(recs))

\* three records: a weakness together with a strength in distance endurance
\* and a rising score
C20_Witness ==
    /\ pc = "compared" /\ result.status = "ok"
    /\ Len(result.recommendations) = 3
    /\ Len(result.strengths_weaknesses.weaknesses) >= 2
    /\ result.strengths_weaknesses.strengths # <<>>

\* records without the first one: no weakness, the score falling
C20_WitnessNoWeakness ==
    /\ pc = "compared" /\ result.status = "ok"
    /\ result.strengths_weaknesses.weaknesses = <<>>
    /\ result.recommendations # <<>>

\* the record that builds on the strongest area
IsStrengthRecord(rec) == rec.priority = "Medium"

\* the record that reacts to the trend of the total score
IsProgressionRecord(rec) == rec.focus \in {"Maintain Momentum", "Recovery & Deload"}

\* a second-priority record is present, after the weakest-area record and
\* before the score-trend record
StrengthRecordInPlace(recs) ==
    \E i \in 1..Len(recs) :
        /\ IsStrengthRecord(recs[i])
        /\ \A j \in 1..Len(recs) :
               /\ (\E k \in SubKeySet : recs[j].focus = WeakestAreaFocus(k)) => j < i
               /\ IsProgressionRecord(recs[j]) => i < j

\* C21 (as claimed): whenever identify_strengths_weaknesses listed at least one
\* strength, the recommendations hold a second-priority record for the
\* strongest area, whichever category it is, placed after the weakest-area
\* record and before the score-trend record.
C21_StrengthAlwaysLeveraged ==
    (pc = "compared" /\ result.status = "ok"
     /\ result.strengths_weaknesses.strengths # <<>>) =>
        StrengthRecordInPlace(result.recommendations)

\* the strength of greatest mean is distance endurance
StrongestIsDistance ==
    MaxByScore(result.strengths_weaknesses.strengths).area = "Distance Endurance"

\* C21, where the strongest area is distance endurance: there the record is
\* emitted, in its place; for any other strongest area no record is emitted.
C21_HoldsForDistance ==
    (pc = "compared" /\ result.status = "ok"
     /\ result.strengths_weaknesses.strengths # <<>>) =>
        (StrongestIsDistance <=> StrengthRecordInPlace(result.recommendations))

C21_WitnessForDistance ==
    /\ pc = "compared" /\ result.status = "ok"
    /\ result.strengths_weaknesses.strengths # <<>>
    /\ StrongestIsDistance
    /\ Len(result.recommendations) = 3

-----------------------------------------------------------------------------
(* Properties of the source-column choice and of gear detection            *)

\* the table df without its raw speed column
WithoutRawSpeed == [c \in DOMAIN df \ {"speed"} |-> df[c]]

BothSpeedColumns == {"enhanced_speed", "speed"} \subseteq DOMAIN df

\* C22 (as claimed): when a table has both an enhanced_speed and a speed column,
\* calculate_swim_metrics and calculate_pace_stability both read enhanced_speed:
\* each returns what it returns for the same table without the speed column.
C22_SmoothedOverRaw ==
    (pc = "extracted" /\ BothSpeedColumns) =>
        /\ swim_metrics # <<>> => swim_metrics = calculate_swim_metrics(WithoutRawSpeed)
        /\ pace_stability # <<>> => pace_stability = calculate_pace_stability(WithoutRawSpeed)

\* C22 for calculate_swim_metrics alone
C22_HoldsForSwimMetrics ==
    (pc = "extracted" /\ BothSpeedColumns /\ swim_metrics # <<>>) =>
        swim_metrics = calculate_swim_metrics(WithoutRawSpeed)

\* both columns present with different samples, the bundle follows enhanced_speed
C22_WitnessForSwimMetrics ==
    /\ pc = "extracted" /\ BothSpeedColumns /\ swim_metrics # <<>>
    /\ df["enhanced_speed"] # df["speed"]
    /\ swim_metrics # calculate_swim_metrics([c \in DOMAIN df \ {"enhanced_speed"} |-> df[c]])

\* the cleaned speed series of the table df: the column calculate_swim_metrics
\* reads, without missing and non-positive samples
CleanedSpeed ==
    IF "enhanced_speed" \in DOMAIN df THEN PositiveOnly(DropNa(df["enhanced_speed"]))
    ELSE IF "speed" \in DOMAIN df THEN PositiveOnly(DropNa(df["speed"]))
    ELSE <<>>

\* for each sample of a series, whether it is at least 1.15 x the mean speed
FastMask(xs) ==
    LET n == Len(xs)
        s == SumSeq(xs)
    IN  [i \in 1..n |-> 100 * n * xs[i] >= 115 * s]

\* the maximal contiguous runs of fast samples of at least 20 samples, each
\* given by its first and last position
LongFastRuns(fast) ==
    { r \in (1..Len(fast)) \X (1..Len(fast)) :
        /\ r[2] - r[1] + 1 >= 20
        /\ \A i \in r[1]..r[2] : fast[i]
        /\ r[1] = 1 \/ ~fast[r[1] - 1]
        /\ r[2] = Len(fast) \/ ~fast[r[2] + 1] }

\* C23: whenever gear detection runs, speed_gear_count is the number of maximal
\* contiguous runs of samples >= 1.15 x mean speed that are at least 20 samples
\* long (a run that ends at the last sample included), and has_speed_gears is
\* true exactly when the count is positive.
C23_GearsAreLongFastRuns ==
    (pc # "extract" /\ "speed_gear_count" \in DOMAIN swim_metrics) =>
        /\ swim_metrics["speed_gear_count"]
               = Cardinality(LongFastRuns(FastMask(CleanedSpeed)))
        /\ swim_metrics["has_speed_gears"] \in {0, 1}
        /\ swim_metrics["has_speed_gears"] = 1 <=> swim_metrics["speed_gear_count"] > 0

\* three fast runs of 20, 5 and 19 samples: one gear
C23_Witness ==
    /\ pc = "extracted" /\ "speed_gear_count" \in DOMAIN swim_metrics
    /\ swim_metrics["speed_gear_count"] = 1
    /\ LET fast == FastMask(CleanedSpeed)
       IN  \E a \in 1..(Len(fast) - 18) :
               /\ \A i \in a..(a + 18) : fast[i]
               /\ a = 1 \/ ~fast[a - 1]
               /\ a + 18 = Len(fast) \/ ~fast[a + 19]

\* two gears, the second one of 20 samples ending at the last sample
C23_WitnessLastSample ==
    /\ pc = "extracted" /\ "speed_gear_count" \in DOMAIN swim_metrics
    /\ swim_metrics["speed_gear_count"] = 2
    /\ LET fast == FastMask(CleanedSpeed)
       IN  \E r \in LongFastRuns(fast) : r[2] = Len(fast) /\ r[2] - r[1] + 1 = 20

\* a fast run of 19 samples and no gear
C23_WitnessNineteen ==
    /\ pc = "extracted" /\ "speed_gear_count" \in DOMAIN swim_metrics
    /\ swim_metrics["speed_gear_count"] = 0
    /\ swim_metrics["has_speed_gears"] = 0
    /\ LET fast == FastMask(CleanedSpeed)
       IN  \E a \in 1..(Len(fast) - 18) : \A i \in a..(a + 18) : fast[i]

\* C24 (as claimed): a series with fewer than 50 valid speed samples is labelled
\* Recovery and gets no gear count, and for every series with 50 or more valid
\* samples gear detection runs and speed_gear_count is in the bundle.
C24_SameMinimumOfFifty ==
    pc = "classified" =>
        /\ Len(CleanedSpeed) < 50 =>
               workout_type = "Recovery" /\ "speed_gear_count" \notin DOMAIN swim_metrics
        /\ Len(CleanedSpeed) >= 50 => "speed_gear_count" \in DOMAIN swim_metrics

\* C24 for every number of valid samples other than 50
C24_HoldsExceptFifty ==
    (pc = "classified" /\ Len(CleanedSpeed) # 50) =>
        /\ Len(CleanedSpeed) < 50 =>
               workout_type = "Recovery" /\ "speed_gear_count" \notin DOMAIN swim_metrics
        /\ Len(CleanedSpeed) >= 50 => "speed_gear_count" \in DOMAIN swim_metrics

\* 51 valid samples: gear detection ran
C24_WitnessFiftyOne ==
    /\ pc = "classified" /\ Len(CleanedSpeed) = 51
    /\ "speed_gear_count" \in DOMAIN swim_metrics
    /\ workout_type # "Recovery"

-----------------------------------------------------------------------------
(* Properties of the trend records                                          *)

\* the bucket of a trend record agrees with its change_pct (a fraction num/den
\* with den > 0)
BucketAgrees(t) ==
    /\ t.trend = "up" => t.change_pct.num > 0
    /\ t.trend = "down" => t.change_pct.num < 0
    /\ t.trend = "stable" => Abs(t.change_pct.num) < 5 * t.change_pct.den

\* C28 (as claimed): in every trend record of calculate_trends, trend 'up' goes
\* with change_pct > 0, 'down' with change_pct < 0 and 'stable' with
\* |change_pct| < 5, also when the mean of the first half is 0.
C28_BucketAgreesWithChange ==
    (pc = "compared" /\ result.status = "ok") =>
        \A key \in DOMAIN result.trends : BucketAgrees(result.trends[key])

\* C28 for the series whose first half has a positive mean
C28_HoldsForPositiveFirstHalf ==
    (pc = "compared" /\ result.status = "ok") =>
        \A key \in DOMAIN result.trends :
            SumSeq(FirstHalf(SeriesOf(result.workouts, key))) > 0 =>
                BucketAgrees(result.trends[key])

\* the three buckets among series with a positive first half
C28_WitnessForPositiveFirstHalf ==
    /\ pc = "compared" /\ result.status = "ok"
    /\ \E k1, k2, k3 \in DOMAIN result.trends :
           /\ \A k \in {k1, k2, k3} : SumSeq(FirstHalf(SeriesOf(result.workouts, k))) > 0
           /\ result.trends[k1].trend = "up"
           /\ result.trends[k2].trend = "down"
           /\ result.trends[k3].trend = "stable"

-----------------------------------------------------------------------------
(* Properties of retry_with_backoff                                         *)

\* a result that is not an error status
IsSuccess(o) == o.kind = "object" \/ (o.kind = "response" /\ o.status < 400)

\* a retryable status (returned or raised) or a network error
IsRetryableFailure(o) ==
    \/ o.kind \in {"response", "HTTPStatusError"} /\ o.status \in RETRYABLE_STATUS_CODES
    \/ IsNetworkError(o)

\* a status >= 400 outside the retryable set, or any other exception
IsFatalFailure(o) == ~IsSuccess(o) /\ ~IsRetryableFailure(o)

\* the exception an outcome stands for
AsException(o) == IF o.kind = "response" THEN Raised("HTTPStatusError", o.status) ELSE o

RetryBounded ==
    /\ Len(invocations) <= max_retries + 1
    /\ pc # "retry_done" => retry_result = NotCalled
    /\ pc = "retry_done" =>
           LET n == Len(invocations)
               last == invocations[n]
           IN  /\ n >= 1
               /\ Len(sleeps) = n - 1
               /\ \A i \in 1..(n - 1) : IsRetryableFailure(invocations[i])
               /\ IsSuccess(last) => retry_result = [kind |-> "returned", value |-> last]
               /\ IsFatalFailure(last) =>
                      retry_result = [kind |-> "raised", value |-> AsException(last)]
               /\ IsRetryableFailure(last) =>
                      /\ n = max_retries + 1
                      /\ retry_result = [kind |-> "raised", value |-> AsException(last)]
                      /\ retry_result.value.kind
                             \in {"HTTPStatusError", "NetworkError", "TimeoutException"}

\* C26: retry_with_backoff terminates, having invoked func at most
\* max_retries + 1 times: it returns the first result that is not an error
\* status; a non-retryable status or a non-network exception ends it at once
\* (no further invocation, no sleep); when all max_retries + 1 attempts failed
\* with retryable errors it raises httpx.HTTPStatusError or the network error.
C26_RetryTerminates == []RetryBounded /\ <>(pc = "retry_done")

\* all max_retries + 1 = 4 attempts failed with retryable errors
C26_Witness ==
    /\ pc = "retry_done" /\ max_retries = MAX_RETRIES
    /\ Len(invocations) = MAX_RETRIES + 1
    /\ sleeps = <<1, 2, 4>>
    /\ retry_result.kind = "raised"

\* success at the third attempt
C26_WitnessReturned ==
    /\ pc = "retry_done" /\ Len(invocations) = 3
    /\ retry_result.kind = "returned"

\* a fatal status at the second attempt
C26_WitnessFatal ==
    /\ pc = "retry_done" /\ Len(invocations) = 2 /\ max_retries = 3
    /\ IsFatalFailure(invocations[2])
    /\ sleeps = <<1>>

-----------------------------------------------------------------------------
(* Properties of the rate limiter *)

\* the number of requests stamped within the fifteen minutes from time t on
CallsInWindowFrom(t) ==
    SumSeq([i \in 1..Len(rate_limit_day) |->
               IF rate_limit_day[i].t >= t /\ rate_limit_day[i].t < t + WINDOW_15MIN
               THEN rate_limit_day[i].n ELSE 0])

\* the busiest fifteen-minute window starts at a request
WindowsWithinLimit ==
    \A i \in 1..Len(rate_limit_day) :
        CallsInWindowFrom(rate_limit_day[i].t) <= RATE_LIMIT_15MIN

\* C25 (as claimed): in every execution of sync_activities, retries by
\* retry_with_backoff and concurrent syncs included, the requests recorded
\* within any 15-minute window never exceed 200.
C25_NeverOver200PerWindow == WindowsWithinLimit

\* What holds: as long as no attempt has been retried, no window holds more
\* than 200 requests, however the two syncs interleave.
C25_HoldsWithoutRetries ==
    (\A s \in Syncs : syncs[s].retried = 0) => WindowsWithinLimit

\* two syncs have fetched pages next to a nearly full window, without a retry
C25_WitnessWithoutRetries ==
    /\ \A s \in Syncs : syncs[s].retried = 0 /\ syncs[s].at = "done"
    /\ \E s \in Syncs : syncs[s].pages_fetched >= 1
    /\ RequestCount(rate_limit_15min) = RATE_LIMIT_15MIN

-----------------------------------------------------------------------------
(* Properties of the background job *)

\* a call of sync_all_users that passed its first quota check and ran to the
\* end of its loop without "break"
RoundCompleted ==
    last_round.users > 0 /\ last_round.passed /\ ~last_round.broke

\* C27 (as claimed): in every round of sync_all_users that passes the initial
\* rate-limit check and is not stopped, sync_user is called for every user
\* with a token, also for a user whose turn comes while fewer than 5 requests
\* remain in the 15-minute quota.  The loop visits each user once, so a round
\* that is over without having called sync_user for a user never will.
C27_EveryUserSynced ==
    RoundCompleted => last_round.called = 1..last_round.users

\* What holds: a completed round has called sync_user for every user except
\* those whose turn came while fewer than 5 requests remained.
C27_HoldsUnlessQuotaLow ==
    RoundCompleted =>
        /\ last_round.called \cup last_round.skipped = 1..last_round.users
        /\ last_round.called \cap last_round.skipped = {}

\* a completed round that called sync_user for every one of several users
C27_WitnessAllSynced ==
    /\ RoundCompleted
    /\ last_round.users >= 2
    /\ last_round.called = 1..last_round.users

\* a task that can still run code of run_loop
Live(k) == tasks[k].at # "done" /\ ~tasks[k].cancel

LiveTasks == {k \in 1..Len(tasks) : Live(k)}

\* the live tasks are the job's task while it is running, none otherwise
OneLiveTaskWhileRunning ==
    LiveTasks = IF running THEN {task} ELSE {}

StartStopRules ==
    /\ (JobStart /\ running) => UNCHANGED <<running, task, tasks>>
    /\ (JobStop /\ ~running) => UNCHANGED <<running, task, tasks>>
    /\ (JobStop /\ running) =>
           /\ ~running'
           /\ tasks'[task].cancel
           /\ \A k \in 1..Len(tasks) : k # task => tasks'[k] = tasks[k]
    /\ \A k \in 1..Len(tasks) :
           (~running \/ tasks[k].cancel) => tasks'[k].called \subseteq tasks[k].called

\* C29: after any sequence of start() and stop() at most one run_loop task is
\* live; start() while running creates no task; stop() while not running
\* changes nothing; stop() while running clears running and cancels the task;
\* a task that was stopped starts no further user sync.
C29_AtMostOneLiveTask ==
    /\ [](Cardinality(LiveTasks) <= 1 /\ OneLiveTaskWhileRunning)
    /\ [][StartStopRules]_vars

\* start() after stop(): the first task was cancelled in the middle of a user
\* sync and has not ended yet, the second one is live
C29_Witness ==
    /\ Len(tasks) = 2
    /\ tasks[1].cancel /\ tasks[1].at = "sync"
    /\ Live(2)
    /\ running

\* start() was called while the job was running
C29_WitnessStartWhileRunning ==
    /\ last_call = [op |-> "start", was_running |-> TRUE]
    /\ Len(tasks) = 1

\* stop() was called while the job was not running
C29_WitnessStopWhileStopped ==
    /\ last_call = [op |-> "stop", was_running |-> FALSE]
    /\ tasks # <<>>

-----------------------------------------------------------------------------
(* Properties of the users table *)

RowsOf(a) == {r \in users : r.strava_athlete_id = a}

\* the calls made for athlete id a
CallsFor(a) == {c \in Callers : calls[c].at # "idle" /\ calls[c].athlete_id = a}

\* C30: however the calls of get_or_create_user for one athlete id interleave,
\* the table holds at most one row for it, exactly one once a call for it is
\* over; no call raises; every call returns that row, the call that lost the
\* insert race (IntegrityError) after its rollback.
C30_OneRowPerAthlete ==
    /\ \A a \in AthleteIds : Cardinality(RowsOf(a)) <= 1
    /\ \A c \in Callers : calls[c].at # "raised"
    /\ \A c \in Callers :
           calls[c].at = "returned" =>
               /\ Cardinality(RowsOf(calls[c].athlete_id)) = 1
               /\ \A r \in RowsOf(calls[c].athlete_id) : r.id = calls[c].user

\* two calls for the same athlete id both found no row and added one; one of
\* them got IntegrityError; both are over and returned the same row
C30_Witness ==
    \E c1, c2 \in Callers :
        /\ c1 # c2
        /\ calls[c1].athlete_id = calls[c2].athlete_id
        /\ calls[c1].at = "returned" /\ calls[c2].at = "returned"
        /\ ~calls[c1].integrity_error /\ calls[c2].integrity_error
        /\ calls[c1].user = calls[c2].user
        /\ Cardinality(CallsFor(calls[c1].athlete_id)) >= 2

====
